---- MODULE Spec2Model ----
(***************************************************************************)
(* A model of the intersection list, the refractive containment walk and   *)
(* the recursive shading pipeline of the ray tracer (intersection.rs,      *)
(* world.rs, materials.rs, shapes/).                                       *)
(*                                                                         *)
(* Geometry is restricted to one axis: every ray runs along the axis on    *)
(* which the spheres are centred and to which the planes are              *)
(* perpendicular.  On that axis the reflected ray is the reversed ray and  *)
(* the refracted ray (normal incidence) keeps the direction, so the        *)
(* sub-world is closed under the secondary rays of World::color_at.        *)
(*                                                                         *)
(* Numbers are fixed point: a length, a colour channel or a material       *)
(* coefficient v stands for v / Scale, and Epsilon stands for              *)
(* MARGIN.epsilon.  Direction and normal vectors are the unit vectors +1   *)
(* and -1 of the axis.  A colour is one channel (the three channels of     *)
(* Color are computed alike, componentwise).                               *)
(*                                                                         *)
(* The specifications share the variables:                                 *)
(*   SpecList      hit and prepare_computations applied to a drawn list;   *)
(*   Spec          one call World::color_at(ray, depth) on a drawn world,  *)
(*                 step by step through the calls it makes (LiveSpec adds  *)
(*                 that a running call takes its next step);               *)
(*   SpecLight     Material::lighting applied to drawn arguments;          *)
(*   SpecFirst     intersect / normal_at of the sphere of shape/sphere.rs; *)
(*   SpecGroup     Group::local_intersect and Group::local_normal_at;      *)
(*   SpecLocal     local_intersect of the sphere, cube, cylinder and cone  *)
(*                 in the plane z = 0;                                     *)
(*   SpecSchlick   Computations::schlick;                                  *)
(*   SpecNormal    Shape::normal_at of the primitives;                     *)
(*   SpecCanvas    Canvas::to_ppm;                                         *)
(*   SpecRefracted World::refracted_color at any angle of incidence.       *)
(***************************************************************************)
EXTENDS Integers, Sequences, FiniteSets, TLC

VARIABLES
    xs,        \* Intersections: the list handed to hit / prepare_computations
    ray,       \* the Ray handed to prepare_computations
    target,    \* Option<Intersection>: the receiver (self) of prepare_computations
    lpc,       \* "input" | "hit" | "prepared": which function has been applied
    hitOut,    \* Option<&Intersection>: the value returned by Intersections::hit
    comps,     \* Option<Computations>: the value returned by prepare_computations
    objects,   \* World.objects, in the order they were added
    light,     \* World.light_source
    stack,     \* the call stack of a trace: one frame per active function
    ret,       \* Option<Color>: the value a callee has just returned
    calls      \* the calls of color_at and World::intersect made so far, with the
               \* ray and the result of the last World::intersect

listVars == <<xs, ray, target, lpc, hitOut, comps>>

worldVars == <<objects, light, stack, ret, calls>>

vars == <<xs, ray, target, lpc, hitOut, comps, objects, light, stack, ret, calls>>

----------------------------------------------------------------------------
(* Fixed-point scale *)

\* MARGIN.epsilon: one step of the fixed-point grid
Epsilon == 1

\* crate::EPSILON, the same step
EPSILON == 1

\* 1.0
Scale == 10000 * Epsilon

Abs(x) == IF x < 0 THEN -x ELSE x

\* a * b for two fixed-point numbers, rounded down; both operands are split
\* so that no intermediate product leaves the 32-bit range of the checker
Mul(a, b) ==
    LET ah == a \div Scale
        al == a % Scale
        bh == b \div Scale
        bl == b % Scale
    IN  ah * bh * Scale + ah * bl + al * bh + (al * bl) \div Scale

\* a / b for two fixed-point numbers, b # 0, rounded down
Div(a, b) ==
    LET n == IF b < 0 THEN -a ELSE a
        d == Abs(b)
    IN  (n \div d) * Scale + ((n % d) * Scale) \div d

\* f32::sqrt: the largest r >= 0 of the grid with r * r <= x, by bisection on
\* [lo, hi); r * r is compared exactly (the part Mul rounds away included),
\* so that the root of 0 is 0 and the root of a square is exact
RECURSIVE Bisect(_, _, _)
Bisect(lo, hi, x) ==
    IF hi - lo <= 1 THEN lo
    ELSE LET mid == (lo + hi) \div 2
             low == mid % Scale
             fits == \/ Mul(mid, mid) < x
                     \/ (Mul(mid, mid) = x /\ (low * low) % Scale = 0)
         IN  IF fits THEN Bisect(mid, hi, x) ELSE Bisect(lo, mid, x)

Sqrt(x) == Bisect(0, (IF x > Scale THEN x ELSE Scale) + 1, x)

\* f32::powi / powf with a whole exponent, by repeated squaring
RECURSIVE Pow(_, _)
Pow(x, n) ==
    IF n = 0 THEN Scale
    ELSE IF n % 2 = 0 THEN Pow(Mul(x, x), n \div 2)
    ELSE Mul(x, Pow(Mul(x, x), n \div 2))

\* Tuple::normalize on the axis: v / |v|
Normalize(v) == IF v < 0 THEN -1 ELSE 1

----------------------------------------------------------------------------
(* Option<T> as a sequence of length 0 or 1 *)

None == <<>>

Some(x) == <<x>>

IsSome(o) == Len(o) = 1

Unwrap(o) == o[1]

----------------------------------------------------------------------------
(* Materials and shapes *)

DefaultMaterial ==
    [color |-> Scale, ambient |-> Scale \div 10, diffuse |-> (9 * Scale) \div 10,
     reflective |-> 0, specular |-> (9 * Scale) \div 10, shininess |-> 200,
     transparency |-> 0, refractive_index |-> Scale]

\* A shape on the axis: a stable id, a transform (translation along the axis
\* by pos composed with a uniform scaling by radius) and a material.
MkSphere(id, pos, radius, material) ==
    [id |-> id, kind |-> "sphere", pos |-> pos, radius |-> radius, material |-> material]

MkPlane(id, pos, material) ==
    [id |-> id, kind |-> "plane", pos |-> pos, radius |-> Scale, material |-> material]

TransformOf(s) == <<s.pos, s.radius>>

\* impl PartialEq for dyn Shape: identity
ShapeEq(a, b) == a.id = b.id

\* impl PartialEq for Intersection: t, material and transform
IntersectionEq(a, b) ==
    /\ a.t = b.t
    /\ a.object.material = b.object.material
    /\ TransformOf(a.object) = TransformOf(b.object)

Intersection(t, object) == [t |-> t, object |-> object]

MkRay(origin, direction) == [origin |-> origin, direction |-> direction]

\* Ray::position
Position(r, t) == r.origin + r.direction * t

\* Shape::normal_at on the axis: the sphere's normal points away from its
\* centre, the plane's is the constant up vector.
NormalAt(s, p) ==
    IF s.kind = "sphere" THEN Normalize(p - s.pos) ELSE 1

\* Tuple::reflect: v - n * 2 * dot(v, n)
Reflect(v, n) == v - n * 2 * (v * n)

----------------------------------------------------------------------------
(* Intersections::hit *)

IsCandidateStrict(i) == i.t > 0

\* the filter of hit: |i| i.t >= 0.0
IsCandidate(i) == i.t >= 0

\* Iterator::min_by over partial_cmp of t: a left fold that keeps the
\* accumulator unless it compares Greater than the next element.
RECURSIVE MinByT(_, _, _)
MinByT(s, k, acc) ==
    IF k > Len(s) THEN acc
    ELSE MinByT(s, k + 1, IF acc.t > s[k].t THEN s[k] ELSE acc)

Hit(list) ==
    LET cand == SelectSeq(list, IsCandidate)
    IN  IF Len(cand) = 0 THEN None ELSE Some(MinByT(cand, 2, cand[1]))

----------------------------------------------------------------------------
(* Intersection::prepare_computations *)

TopFirst(containers) ==
    IF Len(containers) = 0 THEN Scale
    ELSE containers[1].material.refractive_index

\* containers.is_empty() ? 1.0 : containers.last().material().refractive_index
TopIndex(containers) ==
    IF Len(containers) = 0 THEN Scale
    ELSE containers[Len(containers)].material.refractive_index

PushAlways(containers, object) == Append(containers, object)

\* a loop body that pushes a shape that is not held and never removes one
ToggleKeepsHeld(containers, object) ==
    IF \E j \in 1..Len(containers) : ShapeEq(containers[j], object)
    THEN containers
    ELSE Append(containers, object)

\* the middle of the loop body: remove the shape if it is held, else push it
Toggle(containers, object) ==
    IF \E j \in 1..Len(containers) : ShapeEq(containers[j], object)
    THEN SelectSeq(containers, LAMBDA s : ~ShapeEq(s, object))
    ELSE Append(containers, object)

\* a loop that reads n1 after the shape of the receiver has been toggled
RECURSIVE WalkReadsN1Late(_, _, _, _, _, _)
WalkReadsN1Late(list, self, k, containers, n1, n2) ==
    IF k > Len(list) THEN [n1 |-> n1, n2 |-> n2, containers |-> containers]
    ELSE LET i == list[k]
             isSelf == IntersectionEq(i, self)
             c2 == Toggle(containers, i.object)
         IN  IF isSelf
             THEN [n1 |-> TopIndex(c2), n2 |-> TopIndex(c2), containers |-> c2]
             ELSE WalkReadsN1Late(list, self, k + 1, c2, n1, n2)

\* the loop over the list, from element k on, with the loop's locals
RECURSIVE Walk(_, _, _, _, _, _)
Walk(list, self, k, containers, n1, n2) ==
    IF k > Len(list) THEN [n1 |-> n1, n2 |-> n2, containers |-> containers]
    ELSE LET i == list[k]
             isSelf == IntersectionEq(i, self)
             n1a == IF isSelf THEN TopIndex(containers) ELSE n1
             c2 == Toggle(containers, i.object)
             n2a == IF isSelf THEN TopIndex(c2) ELSE n2
         IN  IF isSelf
             THEN [n1 |-> n1a, n2 |-> n2a, containers |-> c2]
             ELSE Walk(list, self, k + 1, c2, n1a, n2a)

\* a prepare_computations that records inside and keeps the normal as the
\* shape returned it
PrepareComputationsUnflipped(self, r, list) ==
    LET point == Position(r, self.t)
        eyev == -r.direction
        n0 == NormalAt(self.object, point)
        reflectv == Reflect(r.direction, n0)
        inside == n0 * eyev < 0
        w == Walk(list, self, 1, <<>>, 0, 0)
    IN  [t |-> self.t, object |-> self.object, point |-> point,
         over_point |-> point + n0 * Epsilon,
         under_point |-> point - n0 * Epsilon,
         eyev |-> eyev, normalv |-> n0, reflectv |-> reflectv,
         inside |-> inside, n1 |-> w.n1, n2 |-> w.n2]

PrepareComputations(self, r, list) ==
    LET point == Position(r, self.t)
        eyev == -r.direction
        n0 == NormalAt(self.object, point)
        reflectv == Reflect(r.direction, n0)
        inside == n0 * eyev < 0
        normalv == IF inside THEN -n0 ELSE n0
        w == Walk(list, self, 1, <<>>, 0, 0)
    IN  [t |-> self.t, object |-> self.object, point |-> point,
         over_point |-> point + normalv * Epsilon,
         under_point |-> point - normalv * Epsilon,
         eyev |-> eyev, normalv |-> normalv, reflectv |-> reflectv,
         inside |-> inside, n1 |-> w.n1, n2 |-> w.n2]

----------------------------------------------------------------------------
(* Shapes: intersect *)

\* Ray::transform by the inverse of the shape's transform
LocalRay(s, r) ==
    [origin |-> Div(r.origin - s.pos, s.radius),
     direction |-> Div(r.direction * Scale, s.radius)]

\* Sphere::local_intersect; origin and direction of the local ray are
\* fixed-point numbers
SphereLocalIntersect(s, lr) ==
    LET a == Mul(lr.direction, lr.direction)
        b == 2 * Mul(lr.direction, lr.origin)
        c == Mul(lr.origin, lr.origin) - Scale
        discriminant == Mul(b, b) - 4 * Mul(a, c)
    IN  IF discriminant < 0 THEN <<>>
        ELSE << Intersection(Div(-b - Sqrt(discriminant), 2 * a), s),
                Intersection(Div(-b + Sqrt(discriminant), 2 * a), s) >>

\* Plane::local_intersect
PlaneLocalIntersect(s, lr) ==
    IF Abs(lr.direction) < EPSILON THEN <<>>
    ELSE << Intersection(Div(-lr.origin, lr.direction), s) >>

\* Shape::intersect
ShapeIntersect(s, r) ==
    IF s.kind = "sphere" THEN SphereLocalIntersect(s, LocalRay(s, r))
    ELSE PlaneLocalIntersect(s, LocalRay(s, r))

----------------------------------------------------------------------------
(* World *)

\* color::BLACK
BLACK == 0

\* color::WHITE
WHITE == Scale

\* flat_map over the objects, in the order they were added
RECURSIVE FlatMapIntersect(_, _, _)
FlatMapIntersect(objs, r, k) ==
    IF k > Len(objs) THEN <<>>
    ELSE ShapeIntersect(objs[k], r) \o FlatMapIntersect(objs, r, k + 1)

\* one insertion of the stable sort: e goes after every element whose t is
\* <= its own
RECURSIVE InsertByT(_, _)
InsertByT(sorted, e) ==
    IF sorted = <<>> THEN <<e>>
    ELSE IF Head(sorted).t <= e.t THEN <<Head(sorted)>> \o InsertByT(Tail(sorted), e)
    ELSE <<e>> \o sorted

RECURSIVE SortFrom(_, _, _)
SortFrom(list, k, acc) ==
    IF k > Len(list) THEN acc ELSE SortFrom(list, k + 1, InsertByT(acc, list[k]))

NoSort(list) == list

\* vec.sort_by(|a, b| a.t.partial_cmp(&b.t).unwrap()): a stable sort by t
SortByT(list) == SortFrom(list, 1, <<>>)

\* World::intersect
WorldIntersect(objs, r) == SortByT(FlatMapIntersect(objs, r, 1))

OccludesAtLight(t, distance) == t <= distance

\* h.t < distance
Occludes(t, distance) == t < distance

\* World::is_shadowed
IsShadowed(objs, lgt, point) ==
    LET v == lgt.position - point
        distance == Abs(v)
        direction == Normalize(v)
        h == Hit(WorldIntersect(objs, MkRay(point, direction)))
    IN  IF IsSome(h) THEN Occludes(Unwrap(h).t, distance) ELSE FALSE

LightingIgnoresShadow(material, lgt, point, eyev, normalv, in_shadow) ==
    LET effective_color == Mul(material.color, lgt.intensity)
        lightv == Normalize(lgt.position - point)
        ambient == Mul(effective_color, material.ambient)
        light_dot_normal == lightv * normalv
        reflect_dot_eye == Reflect(-lightv, normalv) * eyev
        diffuse == IF light_dot_normal < 0 THEN BLACK
                   ELSE Mul(effective_color, material.diffuse) * light_dot_normal
        specular == IF light_dot_normal < 0 \/ reflect_dot_eye <= 0 THEN BLACK
                    ELSE Mul(Mul(lgt.intensity, material.specular),
                             Pow(reflect_dot_eye * Scale, material.shininess))
    IN  ambient + diffuse + specular

\* Material::lighting (no pattern: the base colour is the material's)
Lighting(material, lgt, point, eyev, normalv, in_shadow) ==
    LET effective_color == Mul(material.color, lgt.intensity)
        lightv == Normalize(lgt.position - point)
        ambient == Mul(effective_color, material.ambient)
        light_dot_normal == lightv * normalv
        reflect_dot_eye == Reflect(-lightv, normalv) * eyev
        diffuse == IF light_dot_normal < 0 THEN BLACK
                   ELSE Mul(effective_color, material.diffuse) * light_dot_normal
        specular == IF light_dot_normal < 0 \/ reflect_dot_eye <= 0 THEN BLACK
                    ELSE Mul(Mul(lgt.intensity, material.specular),
                             Pow(reflect_dot_eye * Scale, material.shininess))
    IN  IF in_shadow THEN ambient ELSE ambient + diffuse + specular

\* a schlick that compares n1 and n2 the wrong way round
SchlickOfSwapped(cos, n1, n2) ==
    LET n == Div(n1, n2)
        sin2_t == Mul(Mul(n, n), Scale - Mul(cos, cos))
        cos2 == IF n1 < n2 THEN Sqrt(Scale - sin2_t) ELSE cos
        ratio == Div(n1 - n2, n1 + n2)
        r0 == Mul(ratio, ratio)
    IN  IF n1 < n2 /\ sin2_t > Scale THEN Scale
        ELSE r0 + Mul(Scale - r0, Pow(Scale - cos2, 5))

\* the body of Computations::schlick, for cos = eyev . normalv
SchlickOf(cos, n1, n2) ==
    LET n == Div(n1, n2)
        sin2_t == Mul(Mul(n, n), Scale - Mul(cos, cos))
        cos2 == IF n1 > n2 THEN Sqrt(Scale - sin2_t) ELSE cos
        ratio == Div(n1 - n2, n1 + n2)
        r0 == Mul(ratio, ratio)
    IN  IF n1 > n2 /\ sin2_t > Scale THEN Scale
        ELSE r0 + Mul(Scale - r0, Pow(Scale - cos2, 5))

\* Computations::schlick; on the axis eyev . normalv is 1 or -1
Schlick(c) == SchlickOf((c.eyev * c.normalv) * Scale, c.n1, c.n2)

BlendEither(material) == material.reflective > 0 \/ material.transparency > 0

\* material.reflective > 0.0 && material.transparency > 0.0
Blend(material) == material.reflective > 0 /\ material.transparency > 0

\* the last expression of World::shade_hit
Combine(c, surface, reflected, refracted) ==
    IF Blend(c.object.material)
    THEN LET reflectance == Schlick(c)
         IN  surface + Mul(reflected, reflectance) + Mul(refracted, Scale - reflectance)
    ELSE surface + reflected + refracted

ReflectedStopsNever(c, remaining) == c.object.material.reflective < Epsilon

\* comps.object.material().reflective < MARGIN.epsilon || remaining == 0
ReflectedStops(c, remaining) ==
    c.object.material.reflective < Epsilon \/ remaining = 0

\* a base case of refracted_color that does not look at remaining
RefractedStopsOpaqueOnly(c, remaining) == c.object.material.transparency <= Epsilon

\* comps.object.material().transparency <= MARGIN.epsilon || remaining == 0
RefractedStops(c, remaining) ==
    c.object.material.transparency <= Epsilon \/ remaining = 0

\* Ray::new(comps.over_point, comps.reflectv)
ReflectRay(c) == MkRay(c.over_point, c.reflectv)

\* n_ratio, cos_i, sin2_t of World::refracted_color
NRatio(c) == Div(c.n1, c.n2)

CosI(c) == (c.eyev * c.normalv) * Scale

\* a sin2_t without the square of n_ratio
Sin2TOfUnsquared(n_ratio, cos_i) == Mul(n_ratio, Scale - Mul(cos_i, cos_i))

\* n_ratio.powi(2) * (1.0 - cos_i.powi(2))
Sin2TOf(n_ratio, cos_i) == Mul(Mul(n_ratio, n_ratio), Scale - Mul(cos_i, cos_i))

Sin2T(c) == Sin2TOf(NRatio(c), CosI(c))

\* the refracted ray: from the under point, along
\* normalv * (n_ratio * cos_i - cos_t) - eyev * n_ratio
RefractRay(c) ==
    LET cos_t == Sqrt(Scale - Sin2T(c))
        direction == c.normalv * (Mul(NRatio(c), CosI(c)) - cos_t) - c.eyev * NRatio(c)
    IN  MkRay(c.under_point, direction \div Scale)

SameDepth(remaining) == remaining

\* remaining - 1
Deeper(remaining) == remaining - 1

AlwaysTheHit(h, intersections) == <<h>>

\* a list for prepare_computations that leaves the hit itself out
AllButTheHit(h, intersections) ==
    SelectSeq(intersections, LAMBDA i : ~IntersectionEq(i, h))

\* the list color_at hands to prepare_computations: all of intersections
ListForComputations(h, intersections) == intersections

----------------------------------------------------------------------------
(* The call stack of a trace.  A frame holds the locals of one active call;  *)
(* fields a function does not have keep their initial value.                *)

NoRay == MkRay(0, 1)

NoShape == MkSphere(0, 0, Scale, DefaultMaterial)

NoComps ==
    [t |-> 0, object |-> NoShape, point |-> 0, over_point |-> 0, under_point |-> 0,
     eyev |-> 1, normalv |-> 1, reflectv |-> 1, inside |-> FALSE, n1 |-> 0, n2 |-> 0]

\* PointLight
PointLight(position, intensity) == [position |-> position, intensity |-> intensity]

\* the ray World::is_shadowed casts from point toward the light
ShadowRay(lgt, point) == MkRay(point, Normalize(lgt.position - point))

NoCalls == [color_at |-> 0, intersect |-> 0, lastRay |-> NoRay, last |-> <<>>]

\* the record of one more call of World::intersect, with its ray and result
Intersected(log, r, result) ==
    [log EXCEPT !.intersect = @ + 1, !.lastRay = r, !.last = result]

Frame(fn, r, c, remaining) ==
    [fn |-> fn, pc |-> "start", ray |-> r, comps |-> c, remaining |-> remaining,
     intersections |-> <<>>, shadowed |-> FALSE, surface |-> BLACK,
     reflected |-> BLACK, refracted |-> BLACK]

Top == stack[Len(stack)]

Pop(st) == SubSeq(st, 1, Len(st) - 1)

ReplaceTop(st, f) == [st EXCEPT ![Len(st)] = f]

Running(fn, pc) == stack # <<>> /\ Top.fn = fn /\ Top.pc = pc

----------------------------------------------------------------------------
(* Inputs of the list functions *)

MaxLen == 3

MaxT == 1

Index(num, den) == (num * Scale) \div den

\* the three glass spheres of find_n1_and_n2, and a second sphere built like
\* the first (same transform and material, its own id)
GlassA == MkSphere(1, 0, 2 * Scale, [DefaultMaterial EXCEPT !.refractive_index = Index(3, 2)])

GlassB == MkSphere(2, -(Scale \div 4), Scale, [DefaultMaterial EXCEPT !.refractive_index = Index(2, 1)])

GlassC == MkSphere(3, Scale \div 4, Scale, [DefaultMaterial EXCEPT !.refractive_index = Index(5, 2)])

GlassTwin == [GlassA EXCEPT !.id = 4]

GlassRay == MkRay(-4 * Scale, 1)

GlassXs ==
    << Intersection(2 * Scale, GlassA),
       Intersection((11 * Scale) \div 4, GlassB),
       Intersection((13 * Scale) \div 4, GlassC),
       Intersection((19 * Scale) \div 4, GlassB),
       Intersection((21 * Scale) \div 4, GlassC),
       Intersection(6 * Scale, GlassA) >>

ListShapes == {GlassA, GlassB, GlassTwin}

ListIntersections == { Intersection(t, s) : t \in -1..MaxT, s \in ListShapes }

SeqsUpTo(S, n) == UNION { [1..m -> S] : m \in 0..n }

Range(s) == { s[i] : i \in 1..Len(s) }

----------------------------------------------------------------------------
(* SpecList: hit and prepare_computations applied to a drawn list *)

InitList ==
    /\ xs \in SeqsUpTo(ListIntersections, MaxLen) \cup {GlassXs}
    /\ ray = GlassRay
    /\ target = None
    /\ lpc = "input"
    /\ hitOut = None
    /\ comps = None
    /\ objects = <<>>
    /\ light = PointLight(0, WHITE)
    /\ stack = <<>>
    /\ ret = None
    /\ calls = NoCalls

DoHit ==
    /\ lpc = "input"
    /\ hitOut' = Hit(xs)
    /\ lpc' = "hit"
    /\ UNCHANGED <<xs, ray, target, comps>>
    /\ UNCHANGED worldVars

DoPrepare ==
    /\ lpc = "input"
    /\ \E self \in Range(xs) \cup ListIntersections :
          /\ target' = Some(self)
          /\ comps' = Some(PrepareComputations(self, ray, xs))
    /\ lpc' = "prepared"
    /\ UNCHANGED <<xs, ray, hitOut>>
    /\ UNCHANGED worldVars

NextList == DoHit \/ DoPrepare

SpecList == InitList /\ [][NextList]_vars

----------------------------------------------------------------------------
(* Inputs of a trace *)

MaxObjects == 2

MaxDepth == 2

Mirror == [DefaultMaterial EXCEPT !.reflective = Scale]

Glass == [DefaultMaterial EXCEPT !.transparency = Scale, !.refractive_index = Index(3, 2)]

GlassMirror ==
    [DefaultMaterial EXCEPT !.reflective = Scale \div 2, !.transparency = Scale \div 2,
                            !.refractive_index = Index(3, 2)]

\* reflective and transparency exactly at the epsilon of the two base cases
Film ==
    [DefaultMaterial EXCEPT !.reflective = Epsilon, !.transparency = Epsilon,
                            !.refractive_index = Index(3, 2)]

\* two facing mirrors, a glass sphere around a matte one, a pane that both
\* reflects and refracts, a film, and a matte wall touching the glass sphere
Catalogue ==
    { MkPlane(1, -2 * Scale, Mirror),
      MkPlane(2, 2 * Scale, Mirror),
      MkSphere(3, 0, Scale, Glass),
      MkSphere(4, 0, Scale \div 2, DefaultMaterial),
      MkPlane(5, (3 * Scale) \div 2, GlassMirror),
      MkPlane(6, -((3 * Scale) \div 2), Film),
      MkPlane(7, Scale, DefaultMaterial) }

\* World::object applied up to MaxObjects times, in every order
Scenes ==
    { w \in SeqsUpTo(Catalogue, MaxObjects) :
        \A j, k \in 1..Len(w) : j < k => w[j] # w[k] }

\* a light between the objects, one outside them all, and one on the surface
\* of the second mirror (an object exactly at the distance of the light)
Lights == { PointLight(0, WHITE), PointLight(-10 * Scale, WHITE), PointLight(2 * Scale, WHITE) }

\* from outside every object, from the common centre of the spheres, and from
\* a point of a surface (where the nearest intersection is at t = 0)
Rays == { MkRay(o, d) : o \in {-5 * Scale, 0, Scale}, d \in {1, -1} }

----------------------------------------------------------------------------
(* Spec: World::color_at(ray, depth) on a drawn scene *)

Init ==
    /\ objects \in Scenes
    /\ light \in Lights
    /\ \E r \in Rays, d \in 0..MaxDepth : stack = << Frame("color_at", r, NoComps, d) >>
    /\ ret = None
    /\ calls = [NoCalls EXCEPT !.color_at = 1]
    /\ xs = <<>>
    /\ ray = NoRay
    /\ target = None
    /\ lpc = "off"
    /\ hitOut = None
    /\ comps = None

\* World::color_at up to its call of shade_hit (or its return of black)
ColorAt ==
    /\ Running("color_at", "start")
    /\ LET f == Top
           intersections == WorldIntersect(objects, f.ray)
           h == Hit(intersections)
       IN  /\ calls' = Intersected(calls, f.ray, intersections)
           /\ IF IsSome(h)
              THEN LET c == PrepareComputations(Unwrap(h), f.ray,
                                ListForComputations(Unwrap(h), intersections))
                   IN  /\ stack' = Append(ReplaceTop(stack, [f EXCEPT !.pc = "shade",
                                        !.intersections = intersections, !.comps = c]),
                                          Frame("shade_hit", f.ray, c, f.remaining))
                       /\ ret' = None
              ELSE /\ stack' = Pop(stack)
                   /\ ret' = Some(BLACK)
    /\ UNCHANGED <<objects, light, listVars>>

\* a color_at that takes the world by value, as World::object does, and
\* leaves it without objects
ColorAtReturnConsuming ==
    /\ Running("color_at", "shade")
    /\ IsSome(ret)
    /\ stack' = Pop(stack)
    /\ objects' = <<>>
    /\ UNCHANGED <<ret, calls, light, listVars>>

\* World::color_at returns what shade_hit returned
ColorAtReturn ==
    /\ Running("color_at", "shade")
    /\ IsSome(ret)
    /\ stack' = Pop(stack)
    /\ UNCHANGED <<ret, calls, objects, light, listVars>>

\* World::shade_hit up to its call of reflected_color
ShadeHit ==
    /\ Running("shade_hit", "start")
    /\ LET f == Top
           c == f.comps
           shadowed == IsShadowed(objects, light, c.over_point)
           surface == Lighting(c.object.material, light, c.over_point, c.eyev,
                               c.normalv, shadowed)
       IN  /\ stack' = Append(ReplaceTop(stack, [f EXCEPT !.pc = "reflected",
                                      !.shadowed = shadowed, !.surface = surface]),
                              Frame("reflected_color", f.ray, c, f.remaining))
           /\ calls' = Intersected(calls, ShadowRay(light, c.over_point),
                                   WorldIntersect(objects, ShadowRay(light, c.over_point)))
    /\ ret' = None
    /\ UNCHANGED <<objects, light, listVars>>

\* World::shade_hit from the return of reflected_color to its call of
\* refracted_color
ShadeHitReflected ==
    /\ Running("shade_hit", "reflected")
    /\ IsSome(ret)
    /\ LET f == Top
       IN  stack' = Append(ReplaceTop(stack, [f EXCEPT !.pc = "refracted",
                                   !.reflected = Unwrap(ret)]),
                           Frame("refracted_color", f.ray, f.comps, f.remaining))
    /\ ret' = None
    /\ UNCHANGED <<calls, objects, light, listVars>>

\* World::shade_hit from the return of refracted_color to its own return
ShadeHitRefracted ==
    /\ Running("shade_hit", "refracted")
    /\ IsSome(ret)
    /\ LET f == Top
       IN  ret' = Some(Combine(f.comps, f.surface, f.reflected, Unwrap(ret)))
    /\ stack' = Pop(stack)
    /\ UNCHANGED <<calls, objects, light, listVars>>

\* World::reflected_color up to its return of black or its call of color_at
ReflectedColor ==
    /\ Running("reflected_color", "start")
    /\ LET f == Top
       IN  IF ReflectedStops(f.comps, f.remaining)
           THEN /\ stack' = Pop(stack)
                /\ ret' = Some(BLACK)
                /\ calls' = calls
           ELSE /\ stack' = Append(ReplaceTop(stack, [f EXCEPT !.pc = "cast"]),
                                   Frame("color_at", ReflectRay(f.comps), NoComps,
                                         Deeper(f.remaining)))
                /\ ret' = None
                /\ calls' = [calls EXCEPT !.color_at = @ + 1]
    /\ UNCHANGED <<objects, light, listVars>>

\* World::reflected_color scales the colour color_at returned
ReflectedColorReturn ==
    /\ Running("reflected_color", "cast")
    /\ IsSome(ret)
    /\ ret' = Some(Mul(Unwrap(ret), Top.comps.object.material.reflective))
    /\ stack' = Pop(stack)
    /\ UNCHANGED <<calls, objects, light, listVars>>

\* World::refracted_color up to its return of black or its call of color_at
RefractedColor ==
    /\ Running("refracted_color", "start")
    /\ LET f == Top
       IN  IF RefractedStops(f.comps, f.remaining)
           THEN /\ stack' = Pop(stack)
                /\ ret' = Some(BLACK)
                /\ calls' = calls
           ELSE IF Sin2T(f.comps) > Scale
           THEN /\ stack' = Pop(stack)
                /\ ret' = Some(BLACK)
                /\ calls' = calls
           ELSE /\ stack' = Append(ReplaceTop(stack, [f EXCEPT !.pc = "cast"]),
                                   Frame("color_at", RefractRay(f.comps), NoComps,
                                         Deeper(f.remaining)))
                /\ ret' = None
                /\ calls' = [calls EXCEPT !.color_at = @ + 1]
    /\ UNCHANGED <<objects, light, listVars>>

\* World::refracted_color scales the colour color_at returned
RefractedColorReturn ==
    /\ Running("refracted_color", "cast")
    /\ IsSome(ret)
    /\ ret' = Some(Mul(Unwrap(ret), Top.comps.object.material.transparency))
    /\ stack' = Pop(stack)
    /\ UNCHANGED <<calls, objects, light, listVars>>

Next ==
    \/ ColorAt
    \/ ColorAtReturn
    \/ ShadeHit
    \/ ShadeHitReflected
    \/ ShadeHitRefracted
    \/ ReflectedColor
    \/ ReflectedColorReturn
    \/ RefractedColor
    \/ RefractedColorReturn

Spec == Init /\ [][Next]_vars

\* some call is on the stack.  Every guard of Next is a condition on the top
\* frame and on ret, and CanStep holds in every reachable state, so Active is
\* ENABLED <<Next>>_vars written out.
Active == stack # <<>>

CanStep ==
    Active =>
        \/ Top.pc = "start"
        \/ Top.pc \in {"shade", "reflected", "refracted", "cast"} /\ IsSome(ret)

\* a call that can take a step takes it (the trace is one synchronous
\* computation on one thread): weak fairness of Next, with its enabling
\* condition written as Active
LiveSpec == Spec /\ ([]<>(~Active) \/ []<><<Next>>_vars)

\* the trace has returned to the caller of color_at
Done == stack = <<>> /\ IsSome(ret)

----------------------------------------------------------------------------
(* SpecLight: Material::lighting applied to drawn arguments.  The one frame  *)
(* of the stack holds the arguments (the material of comps.object, the      *)
(* point in comps.over_point, eyev, normalv, in_shadow in shadowed) and,    *)
(* once the function has returned, its value in surface.                    *)

LightMaterials ==
    { [DefaultMaterial EXCEPT !.color = c, !.ambient = a, !.diffuse = d,
                              !.specular = sp, !.shininess = sh] :
        c \in {Scale, Scale \div 2}, a \in {0, Scale \div 10, Scale},
        d \in {0, (9 * Scale) \div 10}, sp \in {0, (9 * Scale) \div 10}, sh \in {1, 200} }

LightSources ==
    { PointLight(p, i) : p \in {-10 * Scale, 10 * Scale}, i \in {WHITE, Scale \div 2} }

LightingArguments ==
    { [NoComps EXCEPT !.object = MkSphere(1, 0, Scale, m), !.over_point = 0,
                      !.eyev = e, !.normalv = n] :
        m \in LightMaterials, e \in {1, -1}, n \in {1, -1} }

InitLight ==
    /\ objects = <<>>
    /\ light \in LightSources
    /\ \E c \in LightingArguments, in_shadow \in BOOLEAN :
          stack = << [Frame("lighting", NoRay, c, 0) EXCEPT !.shadowed = in_shadow] >>
    /\ ret = None
    /\ calls = NoCalls
    /\ xs = <<>>
    /\ ray = NoRay
    /\ target = None
    /\ lpc = "off"
    /\ hitOut = None
    /\ comps = None

DoLighting ==
    /\ Running("lighting", "start")
    /\ LET c == Top.comps
       IN  stack' = << [Top EXCEPT !.pc = "done",
                                  !.surface = Lighting(c.object.material, light, c.over_point,
                                                       c.eyev, c.normalv, Top.shadowed)] >>
    /\ UNCHANGED <<objects, light, ret, calls, listVars>>

NextLight == DoLighting

SpecLight == InitLight /\ [][NextLight]_vars

----------------------------------------------------------------------------
(* Claims about the list functions (checked under SpecList) *)

NonNegativeAt(list) == { k \in 1..Len(list) : list[k].t >= 0 }

\* C1: hit returns, for a list in any order, an intersection of the list
\* whose t is the smallest t >= 0 (t = 0 counts), and returns None if and
\* only if every t of the list is negative (or the list is empty).
C1_HitIsLowestNonNegative ==
    lpc = "hit" =>
        /\ (hitOut = None) <=> (\A k \in 1..Len(xs) : xs[k].t < 0)
        /\ IsSome(hitOut) =>
              \E k \in NonNegativeAt(xs) :
                  /\ Unwrap(hitOut) = xs[k]
                  /\ \A j \in NonNegativeAt(xs) : xs[k].t <= xs[j].t

\* an unsorted list holding a negative t, whose hit is at t = 0
C1_Witness ==
    /\ lpc = "hit"
    /\ IsSome(hitOut)
    /\ Unwrap(hitOut).t = 0
    /\ \E j, k \in 1..Len(xs) : j < k /\ xs[j].t > xs[k].t /\ xs[k].t < 0

\* an empty or all-negative list, for which hit returned None
C1_WitnessNone ==
    /\ lpc = "hit"
    /\ hitOut = None
    /\ Len(xs) = MaxLen

PairwiseDistinct(list) ==
    \A j, k \in 1..Len(list) : j < k => ~IntersectionEq(list[j], list[k])

HeldIds(st) == { st[j].id : j \in 1..Len(st) }

\* the containment stack of the claim after the first j intersections: each
\* intersection's shape is removed if it is on the stack and pushed otherwise
RECURSIVE StackAfter(_, _)
StackAfter(list, j) ==
    IF j = 0 THEN <<>>
    ELSE LET before == StackAfter(list, j - 1)
             shape == list[j].object
         IN  IF shape.id \in HeldIds(before)
             THEN SelectSeq(before, LAMBDA s : s.id # shape.id)
             ELSE before \o <<shape>>

IndexOfTop(st) ==
    IF st = <<>> THEN Scale ELSE st[Len(st)].material.refractive_index

PlaceOf(list, i) == CHOOSE k \in 1..Len(list) : list[k] = i

\* C2: for a list of pairwise-distinct intersections that contains the hit,
\* n1 is the refractive index on top of the stack just before the hit's shape
\* is toggled (1.0 if the stack is empty) and n2 the one on top just after.
C2_WalkYieldsN1N2 ==
    (lpc = "prepared" /\ PairwiseDistinct(xs) /\ Unwrap(target) \in Range(xs)) =>
        LET k == PlaceOf(xs, Unwrap(target))
        IN  /\ Unwrap(comps).n1 = IndexOfTop(StackAfter(xs, k - 1))
            /\ Unwrap(comps).n2 = IndexOfTop(StackAfter(xs, k))

\* a hit that leaves a shape while another, denser one is still entered:
\* n1 and n2 are two different indices, neither of them the vacuum's
C2_Witness ==
    /\ lpc = "prepared"
    /\ PairwiseDistinct(xs)
    /\ Unwrap(target) \in Range(xs)
    /\ Len(xs) = MaxLen
    /\ Unwrap(comps).n1 # Unwrap(comps).n2
    /\ Unwrap(comps).n1 # Scale
    /\ Unwrap(comps).n2 # Scale

GlassExpected ==
    << <<Index(1, 1), Index(3, 2)>>, <<Index(3, 2), Index(2, 1)>>,
       <<Index(2, 1), Index(5, 2)>>, <<Index(5, 2), Index(5, 2)>>,
       <<Index(5, 2), Index(3, 2)>>, <<Index(3, 2), Index(1, 1)>> >>

\* C3: for the three glass spheres of indices 1.5, 2.0, 2.5 and the six
\* ordered intersections of the test, prepare_computations on the k-th
\* intersection yields (1.0,1.5), (1.5,2.0), (2.0,2.5), (2.5,2.5), (2.5,1.5),
\* (1.5,1.0).
C3_GlassSpheresN1N2 ==
    (lpc = "prepared" /\ xs = GlassXs) =>
        \A k \in 1..Len(GlassXs) :
            Unwrap(target) = GlassXs[k] =>
                <<Unwrap(comps).n1, Unwrap(comps).n2>> = GlassExpected[k]

\* the fourth intersection (leaving B inside C), prepared with the full list
C3_Witness ==
    /\ lpc = "prepared"
    /\ xs = GlassXs
    /\ Unwrap(target) = GlassXs[4]
    /\ Unwrap(comps).n1 = Index(5, 2)

----------------------------------------------------------------------------
(* Claims about a trace (checked under Spec; C5 under LiveSpec) *)

\* C4: reflected_color and refracted_color return black whenever remaining
\* is 0, whatever the material, and do so without a call of color_at or of
\* World::intersect.
C4_DepthZeroIsBlackWithoutCasting ==
    [][ ( /\ Running("reflected_color", "start") \/ Running("refracted_color", "start")
          /\ Top.remaining = 0 )
        => /\ ret' = Some(BLACK)
           /\ stack' = Pop(stack)
           /\ calls'.color_at = calls.color_at
           /\ calls'.intersect = calls.intersect ]_vars

\* reflected_color has just returned black to shade_hit at remaining = 0 for
\* a fully reflective material
C4_Witness ==
    /\ Running("shade_hit", "reflected")
    /\ Top.remaining = 0
    /\ Top.comps.object.material.reflective = Scale
    /\ ret = Some(BLACK)

\* refracted_color has just returned black to shade_hit at remaining = 0 for
\* a fully transparent material
C4_WitnessRefracted ==
    /\ Running("shade_hit", "refracted")
    /\ Top.remaining = 0
    /\ Top.comps.object.material.transparency = Scale
    /\ ret = Some(BLACK)

ColorAtFrames == SelectSeq(stack, LAMBDA f : f.fn = "color_at")

\* along the nested color_at calls remaining strictly decreases, and there
\* are at most d + 1 of them, d being the depth the outermost call was given
NestingBounded ==
    LET fs == ColorAtFrames
    IN  /\ \A j, k \in 1..Len(fs) : j < k => fs[j].remaining > fs[k].remaining
        /\ fs # <<>> => Len(fs) <= fs[1].remaining + 1

\* C5: color_at(ray, d) eventually returns in every drawn world, two facing
\* mirrors included; along the nested color_at calls the remaining depth
\* strictly decreases and the nesting never exceeds d + 1 color_at frames.
C5_ColorAtReturns == <>Done /\ []NestingBounded

\* a ray between the two facing mirrors, started at depth MaxDepth, has
\* reached the deepest nesting: MaxDepth + 1 color_at frames
C5_Witness ==
    /\ { objects[k].id : k \in 1..Len(objects) } = {1, 2}
    /\ Len(ColorAtFrames) = MaxDepth + 1
    /\ ColorAtFrames[1].remaining = MaxDepth

\* the same trace has returned to its caller after MaxDepth + 1 calls of
\* color_at
C5_WitnessReturned ==
    /\ { objects[k].id : k \in 1..Len(objects) } = {1, 2}
    /\ Done
    /\ calls.color_at = MaxDepth + 1

\* every t >= 0 at which r meets an object of the world
NonNegativeTs(r) ==
    { i.t : i \in { j \in UNION { Range(ShapeIntersect(objects[k], r)) : k \in 1..Len(objects) } :
                      j.t >= 0 } }

Least(S) == CHOOSE m \in S : \A x \in S : m <= x

\* C6: color_at returns black, at every remaining depth, when the ray meets
\* no object at a t >= 0 (empty world, or every intersection behind the
\* origin), and then shade_hit is not called; otherwise it calls shade_hit,
\* at the same remaining depth, on the computations of the nearest
\* non-negative hit prepared from the full sorted list of the ray's
\* intersections with all objects.
C6_ColorAtBlackOrShadesNearest ==
    [][ Running("color_at", "start") =>
          LET r == Top.ray
              ts == NonNegativeTs(r)
              full == WorldIntersect(objects, r)
              callee == stack'[Len(stack')]
          IN  IF ts = {}
              THEN ret' = Some(BLACK) /\ stack' = Pop(stack)
              ELSE /\ Len(stack') = Len(stack) + 1
                   /\ callee.fn = "shade_hit"
                   /\ callee.pc = "start"
                   /\ callee.remaining = Top.remaining
                   /\ callee.comps.t = Least(ts)
                   /\ \E k \in 1..Len(full) :
                         /\ full[k].t = Least(ts)
                         /\ callee.comps = PrepareComputations(full[k], r, full) ]_vars

\* shade_hit is entered for a hit that leaves a glass sphere the ray started
\* in: the list holds an earlier intersection (t < 0) from which n1 comes
C6_Witness ==
    /\ Running("shade_hit", "start")
    /\ \E k \in 1..Len(calls.last) : calls.last[k].t < 0
    /\ Top.comps.t > 0
    /\ Top.comps.n1 = Index(3, 2)
    /\ Top.comps.n2 = Scale

\* the outermost color_at has returned black, without a shade_hit, for a ray
\* whose intersections all lie behind its origin
C6_WitnessBehind ==
    /\ Done
    /\ ret = Some(BLACK)
    /\ calls.intersect = 1
    /\ calls.last # <<>>
    /\ \A k \in 1..Len(calls.last) : calls.last[k].t < 0

BothReflectiveAndTransparent(material) ==
    material.reflective > 0 /\ material.transparency > 0

\* C7: shade_hit returns surface + reflected * R + refracted * (1 - R), with
\* R = schlick(comps), exactly when the material of the hit is both
\* reflective and transparent, and surface + reflected + refracted in every
\* other case; surface is the lighting at over_point under the shadow test,
\* reflected and refracted are what reflected_color and refracted_color
\* return for the same comps at the same remaining depth.
C7_ShadeHitBlendsBySchlick ==
    [][ /\ Running("shade_hit", "start") =>
              LET callee == stack'[Len(stack')]
                  caller == stack'[Len(stack)]
                  c == Top.comps
              IN  /\ caller.surface =
                        Lighting(c.object.material, light, c.over_point, c.eyev, c.normalv,
                                 IsShadowed(objects, light, c.over_point))
                  /\ callee.fn = "reflected_color" /\ callee.pc = "start"
                  /\ callee.comps = c /\ callee.remaining = Top.remaining
        /\ Running("shade_hit", "reflected") =>
              LET callee == stack'[Len(stack')]
                  caller == stack'[Len(stack)]
              IN  /\ caller.reflected = Unwrap(ret) /\ caller.surface = Top.surface
                  /\ callee.fn = "refracted_color" /\ callee.pc = "start"
                  /\ callee.comps = Top.comps /\ callee.remaining = Top.remaining
        /\ Running("shade_hit", "refracted") =>
              LET surface == Top.surface
                  reflected == Top.reflected
                  refracted == Unwrap(ret)
                  R == Schlick(Top.comps)
              IN  /\ stack' = Pop(stack)
                  /\ ret' = Some(IF BothReflectiveAndTransparent(Top.comps.object.material)
                                 THEN surface + Mul(reflected, R) + Mul(refracted, Scale - R)
                                 ELSE surface + reflected + refracted) ]_vars

\* shade_hit has returned to color_at for a hit on the pane that both
\* reflects and refracts, with a colour above the pane's own lighting
C7_Witness ==
    /\ Running("color_at", "shade")
    /\ IsSome(ret)
    /\ Top.comps.object.material = GlassMirror
    /\ Unwrap(ret) > Lighting(GlassMirror, light, Top.comps.over_point, Top.comps.eyev,
                              Top.comps.normalv, FALSE)

\* shade_hit has returned for a hit on a mirror whose reflection is not
\* black: the plain sum
C7_WitnessSum ==
    /\ Running("color_at", "shade")
    /\ IsSome(ret)
    /\ Top.comps.object.material = Mirror
    /\ Unwrap(ret) > Lighting(Mirror, light, Top.comps.over_point, Top.comps.eyev,
                              Top.comps.normalv, FALSE)

\* the shade_hit frames that have run their shadow test
ShadowTested == { k \in 1..Len(stack) : stack[k].fn = "shade_hit" /\ stack[k].pc # "start" }

DistanceToLight(point) == Abs(light.position - point)

\* C8: is_shadowed(point) is true if and only if the ray from point toward
\* the light meets an object at some t >= 0 whose smallest value is strictly
\* less than the distance from point to the light; objects only behind the
\* point or only beyond the light do not shadow it.
C8_ShadowedIffHitBeforeLight ==
    \A k \in ShadowTested :
        LET point == stack[k].comps.over_point
            ts == NonNegativeTs(ShadowRay(light, point))
        IN  stack[k].shadowed <=> (ts # {} /\ Least(ts) < DistanceToLight(point))

\* a point in shadow: an object lies between it and the light
C8_Witness ==
    \E k \in ShadowTested :
        /\ stack[k].shadowed
        /\ \E t \in NonNegativeTs(ShadowRay(light, stack[k].comps.over_point)) :
              t > 0 /\ t < DistanceToLight(stack[k].comps.over_point)

\* a point not in shadow although its shadow ray meets an object beyond the
\* light and another behind the point
C8_WitnessBeyond ==
    \E k \in ShadowTested :
        LET r == ShadowRay(light, stack[k].comps.over_point)
        IN  /\ ~stack[k].shadowed
            /\ NonNegativeTs(r) # {}
            /\ \E j \in 1..Len(objects) :
                  \E i \in Range(ShapeIntersect(objects[j], r)) : i.t < 0

Count(list, x) == Cardinality({ k \in 1..Len(list) : list[k] = x })

\* the results of intersect(r) of the first n objects, one after the other
RECURSIVE Concatenation(_, _)
Concatenation(r, n) ==
    IF n = 0 THEN <<>> ELSE Concatenation(r, n - 1) \o ShapeIntersect(objects[n], r)

\* C10: the list World::intersect(ray) returns is a permutation of the
\* concatenation of every object's intersect(ray) (nothing dropped, nothing
\* deduplicated: each intersection occurs as often in the one as in the
\* other, and the lengths are equal) and is sorted ascending by t, whatever
\* the order in which the objects were added.
C10_IntersectIsSortedPermutation ==
    calls.intersect > 0 =>
        LET list == calls.last
            each == Concatenation(calls.lastRay, Len(objects))
        IN  /\ Len(list) = Len(each)
            /\ \A x \in Range(list) \cup Range(each) : Count(list, x) = Count(each, x)
            /\ \A k \in 1..(Len(list) - 1) : list[k].t <= list[k + 1].t

\* World::intersect has returned for a world whose objects were added in an
\* order other than that of their intersections: the inner sphere first,
\* then the glass sphere around it
C10_Witness ==
    /\ calls.intersect > 0
    /\ Len(objects) = MaxObjects
    /\ objects[1].id = 4 /\ objects[2].id = 3
    /\ Len(calls.last) = 4
    /\ calls.last[1].object.id = 3

\* two objects met at the same t: both intersections are kept
C10_WitnessTie ==
    /\ calls.intersect > 0
    /\ \E k \in 1..(Len(calls.last) - 1) :
          /\ calls.last[k].t = calls.last[k + 1].t
          /\ calls.last[k].object.id # calls.last[k + 1].object.id

----------------------------------------------------------------------------
(* Claims about Material::lighting (checked under SpecLight) *)

\* C9: lighting called with in_shadow = true returns exactly the ambient
\* term, base colour * light intensity * material.ambient, whatever the eye
\* vector, the normal and the material's diffuse, specular and shininess.
C9_InShadowIsAmbientOnly ==
    (Running("lighting", "done") /\ Top.shadowed) =>
        LET m == Top.comps.object.material
        IN  Top.surface = Mul(Mul(m.color, light.intensity), m.ambient)

\* lighting has returned the ambient term for a shadowed point that, lit,
\* would have got more than it (the light is in front of the surface)
C9_Witness ==
    /\ Running("lighting", "done")
    /\ Top.shadowed
    /\ Top.comps.object.material.ambient > 0
    /\ Top.comps.object.material.diffuse > 0
    /\ Top.comps.object.material.specular > 0
    /\ Normalize(light.position - Top.comps.over_point) = Top.comps.normalv
    /\ Top.comps.eyev = Top.comps.normalv

----------------------------------------------------------------------------
(* Claims about Intersection equality (checked under SpecList) *)

\* C11: Intersection equality holds only between intersections with the
\* same t and the same owning shape: whenever the containment walk of
\* prepare_computations finds an element of the list equal to the target hit,
\* that element has the target's t and is owned by the target's shape.
C11_EqualityComparesOwningShape ==
    (lpc = "prepared") =>
        \A k \in 1..Len(xs) :
            IntersectionEq(xs[k], Unwrap(target)) =>
                /\ xs[k].t = Unwrap(target).t
                /\ ShapeEq(xs[k].object, Unwrap(target).object)

----------------------------------------------------------------------------
(* Matrix and the first Sphere (src/shape/sphere.rs), on the axis.  A        *)
(* transform is the homogeneous matrix of the axis, <<<<s, p>>, <<0, 1>>>>:  *)
(* scaling by s then translation by p; a tuple is <<x, w>> with w = 1 for a  *)
(* point and w = 0 for a vector.                                             *)

\* Result<T, String>
Ok(v) == [ok |-> TRUE, value |-> v]

Err(e) == [ok |-> FALSE, err |-> e]

Point(x) == <<x, Scale>>

Vector(x) == <<x, 0>>

MkMatrix(s, p) == << <<s, p>>, <<0, Scale>> >>

\* Matrix::determinant, the 2 x 2 case
Determinant(m) == Mul(m[1][1], m[2][2]) - Mul(m[1][2], m[2][1])

\* Matrix::is_invertible
IsInvertible(m) == Determinant(m) # 0

\* Matrix::cofactor of a 2 x 2 matrix: the signed remaining entry
Cofactor(m, row, col) ==
    IF (row + col) % 2 = 0 THEN m[3 - row][3 - col] ELSE -m[3 - row][3 - col]

\* Matrix::inverse: Err when not invertible, else new[j][i] = cofactor(i, j) / determinant
Inverse(m) ==
    IF ~IsInvertible(m) THEN Err("not invertible")
    ELSE Ok([j \in 1..2 |-> [i \in 1..2 |-> Div(Cofactor(m, i, j), Determinant(m))]])

\* Matrix::transpose
Transposed(m) == [i \in 1..2 |-> [j \in 1..2 |-> m[j][i]]]

\* Matrix * Tuple
MatrixTimesTuple(m, v) ==
    << Mul(m[1][1], v[1]) + Mul(m[1][2], v[2]), Mul(m[2][1], v[1]) + Mul(m[2][2], v[2]) >>

\* Ray::transform (src/ray/mod.rs); origin and direction are tuples
RayTransformed(r, m) ==
    [origin |-> MatrixTimesTuple(m, r.origin), direction |-> MatrixTimesTuple(m, r.direction)]

\* the first Sphere: a unit sphere at the origin with a transform
FirstSphere(transform) == [center |-> Point(0), radius |-> Scale, transform |-> transform]

\* Sphere::intersect of src/shape/sphere.rs: the ray is transformed by the
\* inverse when there is one and used as it is otherwise
FirstSphereIntersect(self, r) ==
    LET lr == IF IsInvertible(self.transform)
              THEN RayTransformed(r, Inverse(self.transform).value)
              ELSE r
        sphere_to_ray == lr.origin[1] - self.center[1]
        a == Mul(lr.direction[1], lr.direction[1])
        b == 2 * Mul(lr.direction[1], sphere_to_ray)
        c == Mul(sphere_to_ray, sphere_to_ray) - Scale
        discriminant == Mul(b, b) - 4 * Mul(a, c)
    IN  IF discriminant < 0 THEN Ok(<<>>)
        ELSE Ok(<< [t |-> Div(-b - Sqrt(discriminant), 2 * a), object |-> self],
                   [t |-> Div(-b + Sqrt(discriminant), 2 * a), object |-> self] >>)

\* Sphere::normal_at of src/shape/sphere.rs: `?` returns the Err of inverse
FirstSphereNormalAt(self, x) ==
    LET inv == Inverse(self.transform)
    IN  IF ~inv.ok THEN inv
        ELSE LET object_point == MatrixTimesTuple(inv.value, Point(x))
                 object_normal == <<object_point[1], object_point[2] - Scale>>
                 world_normal == MatrixTimesTuple(Transposed(inv.value), object_normal)
             IN  Ok(Vector(Normalize(world_normal[1]) * Scale))

\* the transforms of the inputs: scaling by 0 is not invertible
FirstTransforms ==
    { MkMatrix(s, p) : s \in {0, Scale \div 2, Scale, 2 * Scale}, p \in {-Scale, 0, Scale} }

FirstRays ==
    { [origin |-> Point(o), direction |-> Vector(d * Scale)] :
        o \in {-5 * Scale, 0, 5 * Scale}, d \in {1, -1} }

FirstPoints == {-Scale, Scale, 2 * Scale}

\* SpecFirst: one call of intersect or normal_at on a drawn sphere; the one
\* frame of the stack holds the receiver, the arguments and, once the call
\* has returned, its value in ret
InitFirst ==
    /\ objects = <<>>
    /\ light = PointLight(0, WHITE)
    /\ \E m \in FirstTransforms :
          \/ \E r \in FirstRays :
                stack = << [fn |-> "intersect", pc |-> "start", self |-> FirstSphere(m),
                            ray |-> r, point |-> 0] >>
          \/ \E x \in FirstPoints :
                stack = << [fn |-> "normal_at", pc |-> "start", self |-> FirstSphere(m),
                            ray |-> NoRay, point |-> x] >>
    /\ ret = None
    /\ calls = NoCalls
    /\ xs = <<>>
    /\ ray = NoRay
    /\ target = None
    /\ lpc = "off"
    /\ hitOut = None
    /\ comps = None

DoFirstIntersect ==
    /\ Running("intersect", "start")
    /\ stack' = << [Top EXCEPT !.pc = "done"] >>
    /\ ret' = Some(FirstSphereIntersect(Top.self, Top.ray))
    /\ UNCHANGED <<objects, light, calls, listVars>>

DoFirstNormalAt ==
    /\ Running("normal_at", "start")
    /\ stack' = << [Top EXCEPT !.pc = "done"] >>
    /\ ret' = Some(FirstSphereNormalAt(Top.self, Top.point))
    /\ UNCHANGED <<objects, light, calls, listVars>>

NextFirst == DoFirstIntersect \/ DoFirstNormalAt

SpecFirst == InitFirst /\ [][NextFirst]_vars

\* C12: intersecting a ray with a shape, or asking the normal of a shape,
\* whose transform is not invertible fails (an error result or a panic) in
\* every case; it never returns an ordinary intersection list or normal.
C12_NotInvertibleFailsFast ==
    (stack # <<>> /\ Top.pc = "done" /\ ~IsInvertible(Top.self.transform)) =>
        ~Unwrap(ret).ok

----------------------------------------------------------------------------
(* Group (src/shapes/group.rs) *)

\* panic!(msg): the call does not return a value
Panic(msg) == [ok |-> FALSE, panic |-> msg]

IsPanic(v) == ~v.ok /\ "panic" \in DOMAIN v

\* Group::default followed by add_child for each object, in order
MkGroup(id, children) == [id |-> id, kind |-> "group", objects |-> children]

\* PartialOrd of Intersection, as result.sort_by(|a, b| a.partial_cmp(b))
\* uses it: intersections are ordered by t
PartialCmpLess(a, b) == a.t < b.t

\* a local_intersect that forgets to sort
GroupLocalIntersectUnsorted(self, r) == Ok(FlatMapIntersect(self.objects, r, 1))

\* Group::local_intersect: every child's intersect(ray), pushed in the order
\* of the children, then a stable sort
GroupLocalIntersect(self, r) ==
    LET result == FlatMapIntersect(self.objects, r, 1)
        n == Len(result)
        Rank(k) == Cardinality({ j \in 1..n :
                        \/ PartialCmpLess(result[j], result[k])
                        \/ (~PartialCmpLess(result[k], result[j]) /\ j < k) }) + 1
    IN  Ok([p \in 1..n |-> result[CHOOSE k \in 1..n : Rank(k) = p]])

\* a local_normal_at that answers with a default vector
GroupLocalNormalAtDefault(self, point) == Ok(Vector(0))

\* Group::local_normal_at
GroupLocalNormalAt(self, point) == Panic("Don't call me bro!")

\* SpecGroup: one call of local_intersect or local_normal_at on a drawn group
InitGroup ==
    /\ objects = <<>>
    /\ light = PointLight(0, WHITE)
    /\ \E children \in Scenes :
          \/ \E r \in Rays :
                stack = << [fn |-> "local_intersect", pc |-> "start",
                            self |-> MkGroup(8, children), ray |-> r, point |-> 0] >>
          \/ \E x \in {-Scale, 0, Scale} :
                stack = << [fn |-> "local_normal_at", pc |-> "start",
                            self |-> MkGroup(8, children), ray |-> NoRay, point |-> x] >>
    /\ ret = None
    /\ calls = NoCalls
    /\ xs = <<>>
    /\ ray = NoRay
    /\ target = None
    /\ lpc = "off"
    /\ hitOut = None
    /\ comps = None

DoGroupLocalIntersect ==
    /\ Running("local_intersect", "start")
    /\ stack' = << [Top EXCEPT !.pc = "done"] >>
    /\ ret' = Some(GroupLocalIntersect(Top.self, Top.ray))
    /\ UNCHANGED <<objects, light, calls, listVars>>

DoGroupLocalNormalAt ==
    /\ Running("local_normal_at", "start")
    /\ stack' = << [Top EXCEPT !.pc = "done"] >>
    /\ ret' = Some(GroupLocalNormalAt(Top.self, Point(Top.point)))
    /\ UNCHANGED <<objects, light, calls, listVars>>

NextGroup == DoGroupLocalIntersect \/ DoGroupLocalNormalAt

SpecGroup == InitGroup /\ [][NextGroup]_vars

\* C13: Group::local_normal_at panics for every input point and every group,
\* empty or not; it never returns a vector.
C13_GroupLocalNormalAtPanics ==
    Running("local_normal_at", "done") => IsPanic(Unwrap(ret))

\* local_normal_at has been called on a group with children
C13_Witness ==
    /\ Running("local_normal_at", "done")
    /\ Len(Top.self.objects) = MaxObjects
    /\ IsPanic(Unwrap(ret))

\* local_normal_at has been called on the empty group
C13_WitnessEmpty ==
    /\ Running("local_normal_at", "done")
    /\ Top.self.objects = <<>>
    /\ IsPanic(Unwrap(ret))

\* the intersect(ray) of the first n children, one after the other
RECURSIVE ChildrenIntersections(_, _, _)
ChildrenIntersections(g, r, n) ==
    IF n = 0 THEN <<>>
    ELSE ChildrenIntersections(g, r, n - 1) \o ShapeIntersect(g.objects[n], r)

\* C15: Group::local_intersect returns the intersections of all children,
\* each child intersected through its own transform, none dropped (the list
\* is a permutation of the children's results), ordered ascending by t
\* whatever the order in which the children were added; the empty group
\* returns the empty list.
C15_GroupLocalIntersectSortedAll ==
    Running("local_intersect", "done") =>
        LET list == Unwrap(ret).value
            each == ChildrenIntersections(Top.self, Top.ray, Len(Top.self.objects))
        IN  /\ Unwrap(ret).ok
            /\ Len(list) = Len(each)
            /\ \A x \in Range(list) \cup Range(each) : Count(list, x) = Count(each, x)
            /\ \A k \in 1..(Len(list) - 1) : list[k].t <= list[k + 1].t
            /\ (Top.self.objects = <<>> => list = <<>>)

\* local_intersect has returned for a group whose children were added in an
\* order other than that of their intersections: the inner sphere first,
\* then the glass sphere around it
C15_Witness ==
    /\ Running("local_intersect", "done")
    /\ Len(Top.self.objects) = MaxObjects
    /\ Top.self.objects[1].id = 4 /\ Top.self.objects[2].id = 3
    /\ Len(Unwrap(ret).value) = 4
    /\ Unwrap(ret).value[1].object.id = 3

\* local_intersect has returned for the empty group
C15_WitnessEmpty ==
    /\ Running("local_intersect", "done")
    /\ Top.self.objects = <<>>
    /\ Unwrap(ret).value = <<>>

----------------------------------------------------------------------------
(* Primitives in their own space, in the plane z = 0: a point or vector is  *)
(* <<x, y>>, y being the axis of the cylinder.                               *)

\* f32::MAX, beyond every t of the model
MAX == 2000000000

\* approx_eq!(f32, x, y): the default margin is finer than the grid
ApproxEq(x, y) == x = y

\* Tuple::dot
Dot(u, v) == Mul(u[1], v[1]) + Mul(u[2], v[2])

UnitSphere(id) == [id |-> id, kind |-> "sphere"]

\* a local_intersect that reports a tangent ray once
SphereLocalIntersectOnceAtTangent(self, r) ==
    LET a == Dot(r.direction, r.direction)
        b == 2 * Dot(r.direction, r.origin)
        c == Dot(r.origin, r.origin) - Scale
        discriminant == Mul(b, b) - 4 * Mul(a, c)
    IN  IF discriminant < 0 THEN <<>>
        ELSE IF discriminant = 0 THEN << Intersection(Div(-b, 2 * a), self) >>
        ELSE << Intersection(Div(-b - Sqrt(discriminant), 2 * a), self),
                Intersection(Div(-b + Sqrt(discriminant), 2 * a), self) >>

\* Sphere::local_intersect, with a, b, c and discriminant of shapes/sphere.rs
SphereLocalIntersectInPlane(self, r) ==
    LET a == Dot(r.direction, r.direction)
        b == 2 * Dot(r.direction, r.origin)
        c == Dot(r.origin, r.origin) - Scale
        discriminant == Mul(b, b) - 4 * Mul(a, c)
    IN  IF discriminant < 0 THEN <<>>
        ELSE << Intersection(Div(-b - Sqrt(discriminant), 2 * a), self),
                Intersection(Div(-b + Sqrt(discriminant), 2 * a), self) >>

UnitCube(id) == [id |-> id, kind |-> "cube"]

\* a check_axis that returns the two times in the order of the planes
CheckAxisUnordered(origin, direction) ==
    IF Abs(direction) >= Epsilon
    THEN << Div(-Scale - origin, direction), Div(Scale - origin, direction) >>
    ELSE << (IF -Scale - origin = 0 THEN 0 ELSE IF -Scale - origin > 0 THEN MAX ELSE -MAX),
            (IF Scale - origin = 0 THEN 0 ELSE IF Scale - origin > 0 THEN MAX ELSE -MAX) >>

\* check_axis of shapes/cube.rs; numerator * MAX is 0 or beyond every t
CheckAxis(origin, direction) ==
    LET tmin_numerator == -Scale - origin
        tmax_numerator == Scale - origin
        TimesMAX(n) == IF n = 0 THEN 0 ELSE IF n > 0 THEN MAX ELSE -MAX
        tmin == IF Abs(direction) >= Epsilon THEN Div(tmin_numerator, direction)
                ELSE TimesMAX(tmin_numerator)
        tmax == IF Abs(direction) >= Epsilon THEN Div(tmax_numerator, direction)
                ELSE TimesMAX(tmax_numerator)
    IN  IF tmin > tmax THEN <<tmax, tmin>> ELSE <<tmin, tmax>>

\* Cube::local_intersect; the ray has z = 0 in origin and direction
CubeLocalIntersect(self, r) ==
    LET x == CheckAxis(r.origin[1], r.direction[1])
        y == CheckAxis(r.origin[2], r.direction[2])
        z == CheckAxis(0, 0)
        Largest(S) == CHOOSE m \in S : \A n \in S : n <= m
        Smallest(S) == CHOOSE m \in S : \A n \in S : m <= n
        tmin == Largest({x[1], y[1], z[1]})
        tmax == Smallest({x[2], y[2], z[2]})
    IN  IF tmin > tmax THEN <<>>
        ELSE << Intersection(tmin, self), Intersection(tmax, self) >>

\* Cylinder::default().with_caps(bottom, top)
CappedCylinder(id, bottom, top) ==
    [id |-> id, kind |-> "cylinder", minimum |-> bottom, maximum |-> top, closed |-> TRUE]

\* Cylinder::default() with minimum and maximum assigned and closed left
\* false, as the tests of the constrained cylinder build it
TruncatedCylinder(id, bottom, top) ==
    [id |-> id, kind |-> "cylinder", minimum |-> bottom, maximum |-> top, closed |-> FALSE]

\* check_cap of shapes/cylinder.rs
CheckCap(r, t) ==
    LET x == r.origin[1] + Mul(t, r.direction[1])
    IN  Mul(x, x) <= Scale

\* Cylinder::intersect_caps
IntersectCaps(self, r, list) ==
    IF ~self.closed \/ ApproxEq(r.direction[2], 0) THEN list
    ELSE LET tb == Div(self.minimum - r.origin[2], r.direction[2])
             tt == Div(self.maximum - r.origin[2], r.direction[2])
             bottom == IF CheckCap(r, tb) THEN << Intersection(tb, self) >> ELSE <<>>
             top == IF CheckCap(r, tt) THEN << Intersection(tt, self) >> ELSE <<>>
         IN  list \o bottom \o top

\* a local_intersect that keeps a root of the wall at the height of an end
CylinderLocalIntersectInclusive(self, r) ==
    LET a == Mul(r.direction[1], r.direction[1])
        b == 2 * Mul(r.origin[1], r.direction[1])
        c == Mul(r.origin[1], r.origin[1]) - Scale
        disc == Mul(b, b) - 4 * Mul(a, c)
    IN  IF ApproxEq(a, 0) THEN IntersectCaps(self, r, <<>>)
        ELSE IF disc < 0 THEN <<>>
        ELSE LET ta == Div(-b - Sqrt(disc), 2 * a)
                 tb == Div(-b + Sqrt(disc), 2 * a)
                 t0 == IF ta > tb THEN tb ELSE ta
                 t1 == IF ta > tb THEN ta ELSE tb
                 y0 == r.origin[2] + Mul(t0, r.direction[2])
                 y1 == r.origin[2] + Mul(t1, r.direction[2])
                 first == IF self.minimum <= y0 /\ y0 <= self.maximum
                          THEN << Intersection(t0, self) >> ELSE <<>>
                 second == IF self.minimum <= y1 /\ y1 <= self.maximum
                           THEN << Intersection(t1, self) >> ELSE <<>>
             IN  IntersectCaps(self, r, first \o second)

\* Cylinder::local_intersect
CylinderLocalIntersect(self, r) ==
    LET a == Mul(r.direction[1], r.direction[1])
        b == 2 * Mul(r.origin[1], r.direction[1])
        c == Mul(r.origin[1], r.origin[1]) - Scale
        disc == Mul(b, b) - 4 * Mul(a, c)
    IN  IF ApproxEq(a, 0) THEN IntersectCaps(self, r, <<>>)
        ELSE IF disc < 0 THEN <<>>
        ELSE LET ta == Div(-b - Sqrt(disc), 2 * a)
                 tb == Div(-b + Sqrt(disc), 2 * a)
                 t0 == IF ta > tb THEN tb ELSE ta
                 t1 == IF ta > tb THEN ta ELSE tb
                 y0 == r.origin[2] + Mul(t0, r.direction[2])
                 y1 == r.origin[2] + Mul(t1, r.direction[2])
                 first == IF self.minimum < y0 /\ y0 < self.maximum
                          THEN << Intersection(t0, self) >> ELSE <<>>
                 second == IF self.minimum < y1 /\ y1 < self.maximum
                           THEN << Intersection(t1, self) >> ELSE <<>>
             IN  IntersectCaps(self, r, first \o second)

\* Cone::default() and Cone::default().with_caps(bottom, top)
MkCone(id, bottom, top, closed) ==
    [id |-> id, kind |-> "cone", minimum |-> bottom, maximum |-> top, closed |-> closed]

\* check_cap of shapes/cone.rs: within the radius |y| of the cone at height y
ConeCheckCap(r, t, y) ==
    LET x == r.origin[1] + Mul(t, r.direction[1])
    IN  Mul(x, x) <= Mul(y, y)

\* Cone::intersect_caps
ConeIntersectCaps(self, r, list) ==
    IF ~self.closed \/ ApproxEq(r.direction[2], 0) THEN list
    ELSE LET tb == Div(self.minimum - r.origin[2], r.direction[2])
             tt == Div(self.maximum - r.origin[2], r.direction[2])
             bottom == IF ConeCheckCap(r, tb, self.minimum)
                       THEN << Intersection(tb, self) >> ELSE <<>>
             top == IF ConeCheckCap(r, tt, self.maximum)
                    THEN << Intersection(tt, self) >> ELSE <<>>
         IN  list \o bottom \o top

\* a local_intersect whose linear branch leaves the end caps out
ConeLocalIntersectLinearOnly(self, r) ==
    LET a == Mul(r.direction[1], r.direction[1]) - Mul(r.direction[2], r.direction[2])
        b == 2 * Mul(r.origin[1], r.direction[1]) - 2 * Mul(r.origin[2], r.direction[2])
        c == Mul(r.origin[1], r.origin[1]) - Mul(r.origin[2], r.origin[2])
        disc == Mul(b, b) - 4 * Mul(a, c)
    IN  IF Abs(a) <= Epsilon /\ Abs(b) <= Epsilon THEN ConeIntersectCaps(self, r, <<>>)
        ELSE IF Abs(a) <= Epsilon THEN << Intersection(Div(-c, 2 * b), self) >>
        ELSE IF disc < 0 THEN <<>>
        ELSE LET ta == Div(-b - Sqrt(disc), 2 * a)
                 tb == Div(-b + Sqrt(disc), 2 * a)
                 t0 == IF ta > tb THEN tb ELSE ta
                 t1 == IF ta > tb THEN ta ELSE tb
                 y0 == r.origin[2] + Mul(t0, r.direction[2])
                 y1 == r.origin[2] + Mul(t1, r.direction[2])
                 first == IF self.minimum < y0 /\ y0 < self.maximum
                          THEN << Intersection(t0, self) >> ELSE <<>>
                 second == IF self.minimum < y1 /\ y1 < self.maximum
                           THEN << Intersection(t1, self) >> ELSE <<>>
             IN  ConeIntersectCaps(self, r, first \o second)

\* Cone::local_intersect; in the plane z = 0 the cone is x^2 = y^2
ConeLocalIntersect(self, r) ==
    LET a == Mul(r.direction[1], r.direction[1]) - Mul(r.direction[2], r.direction[2])
        b == 2 * Mul(r.origin[1], r.direction[1]) - 2 * Mul(r.origin[2], r.direction[2])
        c == Mul(r.origin[1], r.origin[1]) - Mul(r.origin[2], r.origin[2])
        disc == Mul(b, b) - 4 * Mul(a, c)
    IN  IF Abs(a) <= Epsilon /\ Abs(b) <= Epsilon THEN ConeIntersectCaps(self, r, <<>>)
        ELSE IF Abs(a) <= Epsilon
        THEN ConeIntersectCaps(self, r, << Intersection(Div(-c, 2 * b), self) >>)
        ELSE IF disc < 0 THEN <<>>
        ELSE LET ta == Div(-b - Sqrt(disc), 2 * a)
                 tb == Div(-b + Sqrt(disc), 2 * a)
                 t0 == IF ta > tb THEN tb ELSE ta
                 t1 == IF ta > tb THEN ta ELSE tb
                 y0 == r.origin[2] + Mul(t0, r.direction[2])
                 y1 == r.origin[2] + Mul(t1, r.direction[2])
                 first == IF self.minimum < y0 /\ y0 < self.maximum
                          THEN << Intersection(t0, self) >> ELSE <<>>
                 second == IF self.minimum < y1 /\ y1 < self.maximum
                           THEN << Intersection(t1, self) >> ELSE <<>>
             IN  ConeIntersectCaps(self, r, first \o second)

\* the primitives of the inputs: the unit sphere, the unit cube, two closed
\* cylinders, an open cylinder between the same heights, the default
\* cylinder (open, from f32::MIN to f32::MAX), the default cone and the
\* closed cone of the repository's tests
Primitives ==
    { UnitSphere(1), UnitCube(2), CappedCylinder(3, Scale, 2 * Scale),
      CappedCylinder(4, Scale, 4 * Scale), TruncatedCylinder(5, Scale, 2 * Scale),
      TruncatedCylinder(6, -MAX, MAX), MkCone(7, -MAX, MAX, FALSE),
      MkCone(8, -(Scale \div 2), Scale \div 2, TRUE) }

\* rays through, beside, tangent to and away from the primitives
LocalRays ==
    { [origin |-> <<ox, oy>>, direction |-> <<dx, dy>>] :
        ox \in {-2 * Scale, 0, Scale \div 2, Scale, 2 * Scale},
        oy \in {-5 * Scale, 0, 5 * Scale},
        dx \in {-Scale, 0, Scale},
        dy \in {-Scale, 0, Scale} }

\* rays that lean from the axis by one step of the grid; check_axis,
\* check_cap and intersect_caps are exact on the grid for them, the sphere's
\* b and c are not
LeaningRays ==
    { [origin |-> <<ox, oy>>, direction |-> <<Epsilon, dy>>] :
        ox \in {Scale - 3 * Epsilon, 0}, oy \in {0, 5 * Scale}, dy \in {-Scale, Scale} }

\* rays that start between the heights of the ends of the cylinders
LevelRays ==
    { [origin |-> <<ox, (3 * Scale) \div 2>>, direction |-> d] :
        ox \in {-2 * Scale, 0}, d \in { <<Scale, 0>>, <<Scale, Scale>>, <<0, Scale>> } }

RaysFor(p) ==
    IF p.kind = "sphere" THEN LocalRays
    ELSE IF p.kind = "cube" THEN LocalRays \cup LeaningRays
    ELSE LocalRays \cup LeaningRays \cup LevelRays

\* SpecLocal: one call of local_intersect on a drawn primitive and ray
InitLocal ==
    /\ objects = <<>>
    /\ light = PointLight(0, WHITE)
    /\ \E p \in Primitives : \E r \in RaysFor(p) :
          /\ Dot(r.direction, r.direction) > 0
          /\ stack = << [fn |-> "local_intersect", pc |-> "start", self |-> p, ray |-> r] >>
    /\ ret = None
    /\ calls = NoCalls
    /\ xs = <<>>
    /\ ray = NoRay
    /\ target = None
    /\ lpc = "off"
    /\ hitOut = None
    /\ comps = None

DoSphereLocalIntersect ==
    /\ Running("local_intersect", "start")
    /\ Top.self.kind = "sphere"
    /\ stack' = << [Top EXCEPT !.pc = "done"] >>
    /\ ret' = Some(SphereLocalIntersectInPlane(Top.self, Top.ray))
    /\ UNCHANGED <<objects, light, calls, listVars>>

DoCubeLocalIntersect ==
    /\ Running("local_intersect", "start")
    /\ Top.self.kind = "cube"
    /\ stack' = << [Top EXCEPT !.pc = "done"] >>
    /\ ret' = Some(CubeLocalIntersect(Top.self, Top.ray))
    /\ UNCHANGED <<objects, light, calls, listVars>>

DoCylinderLocalIntersect ==
    /\ Running("local_intersect", "start")
    /\ Top.self.kind = "cylinder"
    /\ stack' = << [Top EXCEPT !.pc = "done"] >>
    /\ ret' = Some(CylinderLocalIntersect(Top.self, Top.ray))
    /\ UNCHANGED <<objects, light, calls, listVars>>

DoConeLocalIntersect ==
    /\ Running("local_intersect", "start")
    /\ Top.self.kind = "cone"
    /\ stack' = << [Top EXCEPT !.pc = "done"] >>
    /\ ret' = Some(ConeLocalIntersect(Top.self, Top.ray))
    /\ UNCHANGED <<objects, light, calls, listVars>>

NextLocal ==
    \/ DoSphereLocalIntersect
    \/ DoCubeLocalIntersect
    \/ DoCylinderLocalIntersect
    \/ DoConeLocalIntersect

SpecLocal == InitLocal /\ [][NextLocal]_vars

\* direction x (corner - origin): its sign tells the side of the ray's line
\* on which the corner lies
Side(r, corner) ==
    Mul(r.direction[1], corner[2] - r.origin[2]) - Mul(r.direction[2], corner[1] - r.origin[1])

\* the corners of the section of a cube or cylinder with the plane
Corners(p) ==
    IF p.kind = "cube" THEN { <<x, y>> : x \in {-Scale, Scale}, y \in {-Scale, Scale} }
    ELSE { <<x, y>> : x \in {-Scale, Scale}, y \in {p.minimum, p.maximum} }

\* the distance from the centre to the ray's line, squared and times |D|^2
CrossSquared(r) ==
    LET cross == Mul(r.origin[1], r.direction[2]) - Mul(r.origin[2], r.direction[1])
    IN  Mul(cross, cross)

\* the ray's line has a point inside the primitive
ThroughInterior(p, r) ==
    IF p.kind = "sphere" THEN CrossSquared(r) < Dot(r.direction, r.direction)
    ELSE /\ \E k \in Corners(p) : Side(r, k) < 0
         /\ \E k \in Corners(p) : Side(r, k) > 0

\* the ray's line has no point in or on the primitive
Misses(p, r) ==
    IF p.kind = "sphere" THEN CrossSquared(r) > Dot(r.direction, r.direction)
    ELSE \/ \A k \in Corners(p) : Side(r, k) < 0
         \/ \A k \in Corners(p) : Side(r, k) > 0

\* C14: for the unit sphere, the unit cube and the closed capped cylinder
\* local_intersect returns no intersection for every ray that misses the
\* primitive and two for every ray that passes through its interior, also
\* where a cylinder's cap meets its wall.
C14_ConvexPrimitivesZeroOrTwo ==
    (/\ Running("local_intersect", "done")
     /\ Top.self.kind \in {"sphere", "cube", "cylinder"}
     /\ (Top.self.kind = "cylinder" => Top.self.closed)) =>
        /\ Misses(Top.self, Top.ray) => Len(Unwrap(ret)) = 0
        /\ ThroughInterior(Top.self, Top.ray) => Len(Unwrap(ret)) = 2

\* b^2 - 4ac of |O + tD|^2 = 1: a = D.D, b = 2 O.D, c = O.O - 1
QuadraticDiscriminant(r) ==
    LET a == Dot(r.direction, r.direction)
        b == 2 * Dot(r.origin, r.direction)
        c == Dot(r.origin, r.origin) - Scale
    IN  Mul(b, b) - 4 * Mul(a, c)

\* the point at t on the ray
PointAt(r, t) ==
    << r.origin[1] + Mul(t, r.direction[1]), r.origin[2] + Mul(t, r.direction[2]) >>

\* the point at t lies on the unit sphere, within the rounding of the root
OnUnitSphere(r, t) == Abs(Dot(PointAt(r, t), PointAt(r, t)) - Scale) <= 4 * Epsilon

\* C20: Sphere::local_intersect returns no intersection when the
\* discriminant b^2 - 4ac of |O + tD|^2 = 1 is negative and otherwise exactly
\* two, t1 <= t2, both owned by the sphere and both at points of the sphere;
\* a tangent ray (discriminant 0) yields two intersections with equal t, and
\* roots behind the origin (negative t) are reported like the others.
C20_SphereLocalIntersectTwoRoots ==
    (Running("local_intersect", "done") /\ Top.self.kind = "sphere") =>
        LET list == Unwrap(ret)
            d == QuadraticDiscriminant(Top.ray)
        IN  /\ d < 0 => list = <<>>
            /\ d >= 0 =>
                  /\ Len(list) = 2
                  /\ list[1].t <= list[2].t
                  /\ \A k \in 1..2 :
                        /\ list[k].object = Top.self
                        /\ OnUnitSphere(Top.ray, list[k].t)
                  /\ (d = 0 => list[1].t = list[2].t)

\* a tangent ray: two intersections at the same t
C20_Witness ==
    /\ Running("local_intersect", "done")
    /\ Top.self.kind = "sphere"
    /\ QuadraticDiscriminant(Top.ray) = 0
    /\ Len(Unwrap(ret)) = 2
    /\ Unwrap(ret)[1].t = Unwrap(ret)[2].t

\* the sphere is behind the origin of the ray: both roots are negative
C20_WitnessBehind ==
    /\ Running("local_intersect", "done")
    /\ Top.self.kind = "sphere"
    /\ Len(Unwrap(ret)) = 2
    /\ Unwrap(ret)[1].t < Unwrap(ret)[2].t
    /\ Unwrap(ret)[2].t < 0

\* the ray misses the sphere
C20_WitnessMiss ==
    /\ Running("local_intersect", "done")
    /\ Top.self.kind = "sphere"
    /\ QuadraticDiscriminant(Top.ray) < 0
    /\ Unwrap(ret) = <<>>

----------------------------------------------------------------------------
(* Claims about the scene during a trace (checked under Spec) *)

\* C16: tracing never mutates the scene: no step of color_at or of anything
\* it calls (intersect, is_shadowed, shade_hit, reflected_color,
\* refracted_color, prepare_computations, lighting) changes the world's
\* object list, a shape's transform or material, or the light source.
C16_TracingLeavesSceneUnchanged == [][objects' = objects /\ light' = light]_vars

\* a trace has returned through shade_hit, reflected_color and
\* refracted_color in a world of MaxObjects objects
C16_Witness ==
    /\ Done
    /\ Len(objects) = MaxObjects
    /\ calls.color_at > 1
    /\ calls.intersect > calls.color_at
    /\ Unwrap(ret) # BLACK

----------------------------------------------------------------------------
(* SpecSchlick: Computations::schlick applied to drawn eyev . normalv, n1    *)
(* and n2                                                                    *)

\* cosines from grazing to perpendicular; 0.7071 is the sqrt(2)/2 of the
\* repository's test of total internal reflection
Cosines ==
    { 0, Scale \div 10, Scale \div 4, Scale \div 2, (7071 * Scale) \div 10000,
      (8660 * Scale) \div 10000, (9 * Scale) \div 10, Scale }

\* vacuum, water, glass, diamond-like
Indices == { Scale, Index(4, 3), Index(3, 2), Index(2, 1), Index(5, 2) }

InitSchlick ==
    /\ objects = <<>>
    /\ light = PointLight(0, WHITE)
    /\ \E cos \in Cosines, n1 \in Indices, n2 \in Indices :
          stack = << [fn |-> "schlick", pc |-> "start", cos |-> cos, n1 |-> n1, n2 |-> n2] >>
    /\ ret = None
    /\ calls = NoCalls
    /\ xs = <<>>
    /\ ray = NoRay
    /\ target = None
    /\ lpc = "off"
    /\ hitOut = None
    /\ comps = None

DoSchlick ==
    /\ Running("schlick", "start")
    /\ stack' = << [Top EXCEPT !.pc = "done"] >>
    /\ ret' = Some(SchlickOf(Top.cos, Top.n1, Top.n2))
    /\ UNCHANGED <<objects, light, calls, listVars>>

NextSchlick == DoSchlick

SpecSchlick == InitSchlick /\ [][NextSchlick]_vars

\* (n1 / n2)^2 * (1 - cos^2) > 1 with n1 > n2
TotalInternalReflection(cos, n1, n2) ==
    /\ n1 > n2
    /\ Mul(Mul(Div(n1, n2), Div(n1, n2)), Scale - Mul(cos, cos)) > Scale

\* C17: schlick returns exactly 1.0 under total internal reflection, that is
\* whenever n1 > n2 and (n1/n2)^2 * (1 - cos^2) > 1 with cos = eyev . normalv;
\* at a perpendicular viewing angle (cos = 1) from inside glass (n1 = 1.5,
\* n2 = 1.0) it returns r0 = ((n1 - n2) / (n1 + n2))^2 = 0.04.
C17_SchlickTotalReflectionAndR0 ==
    Running("schlick", "done") =>
        /\ TotalInternalReflection(Top.cos, Top.n1, Top.n2) => Unwrap(ret) = Scale
        /\ (Top.cos = Scale /\ Top.n1 = Index(3, 2) /\ Top.n2 = Scale) =>
              /\ Unwrap(ret) = Mul(Div(Top.n1 - Top.n2, Top.n1 + Top.n2),
                                   Div(Top.n1 - Top.n2, Top.n1 + Top.n2))
              /\ Unwrap(ret) = (4 * Scale) \div 100

\* schlick has returned 1.0 for the glass sphere seen from inside at 45
\* degrees, where a partial reflection would have been less
C17_Witness ==
    /\ Running("schlick", "done")
    /\ Top.cos = (7071 * Scale) \div 10000
    /\ Top.n1 = Index(3, 2)
    /\ Top.n2 = Scale
    /\ TotalInternalReflection(Top.cos, Top.n1, Top.n2)
    /\ Unwrap(ret) = Scale

\* schlick has returned 0.04 at the perpendicular angle from inside glass
C17_WitnessPerpendicular ==
    /\ Running("schlick", "done")
    /\ Top.cos = Scale /\ Top.n1 = Index(3, 2) /\ Top.n2 = Scale
    /\ Unwrap(ret) = (4 * Scale) \div 100

----------------------------------------------------------------------------
(* normal_at of the primitives, in the plane z = 0.  The transform of a     *)
(* shape is a uniform scaling followed by a translation.                    *)

\* a tuple whose components are NaN (0.0 / 0.0)
NaNTuple == [nan |-> TRUE]

\* Tuple::normalize: every component divided by the magnitude; the zero
\* vector has magnitude 0
NormalizeTuple(v) ==
    LET magnitude == Sqrt(Dot(v, v))
    IN  IF magnitude = 0 THEN NaNTuple
        ELSE << Div(v[1], magnitude), Div(v[2], magnitude) >>

\* the plane y = 0
FlatPlane(id) == [id |-> id, kind |-> "plane"]

\* Sphere::local_normal_at
SphereLocalNormalAt(self, point) == point

\* Plane::local_normal_at
PlaneLocalNormalAt(self, point) == <<0, Scale>>

\* Cube::local_normal_at; z is 0
CubeLocalNormalAt(self, point) ==
    LET abs_x == Abs(point[1])
        abs_y == Abs(point[2])
        abs_z == 0
        maxc == CHOOSE m \in {abs_x, abs_y, abs_z} : \A n \in {abs_x, abs_y, abs_z} : n <= m
    IN  IF maxc = abs_x THEN <<point[1], 0>>
        ELSE IF maxc = abs_y THEN <<0, point[2]>>
        ELSE <<0, 0>>

\* Cylinder::local_normal_at
CylinderLocalNormalAt(self, point) ==
    LET dist == Mul(point[1], point[1])
    IN  IF dist < Scale /\ point[2] >= self.maximum - Epsilon THEN <<0, Scale>>
        ELSE IF dist < Scale /\ point[2] <= self.minimum + Epsilon THEN <<0, -Scale>>
        ELSE <<point[1], 0>>

\* Cone::local_normal_at
ConeLocalNormalAt(self, point) ==
    LET dist == Mul(point[1], point[1])
    IN  IF dist < Scale /\ point[2] >= self.maximum - Epsilon THEN <<0, Scale>>
        ELSE IF dist < Scale /\ point[2] <= self.minimum + Epsilon THEN <<0, -Scale>>
        ELSE <<point[1], IF point[2] > 0 THEN -Sqrt(dist) ELSE Sqrt(dist)>>

\* Shape::normal_at: the point into the shape's space, local_normal_at, the
\* normal back by the transposed inverse, normalize
ShapeNormalAt(self, transform, world_point) ==
    LET local_point == << Div(world_point[1] - transform.offset[1], transform.scale),
                          Div(world_point[2] - transform.offset[2], transform.scale) >>
        local_normal ==
            CASE self.kind = "sphere" -> SphereLocalNormalAt(self, local_point)
              [] self.kind = "plane" -> PlaneLocalNormalAt(self, local_point)
              [] self.kind = "cube" -> CubeLocalNormalAt(self, local_point)
              [] self.kind = "cylinder" -> CylinderLocalNormalAt(self, local_point)
              [] self.kind = "cone" -> ConeLocalNormalAt(self, local_point)
        world_normal == << Div(local_normal[1], transform.scale),
                           Div(local_normal[2], transform.scale) >>
    IN  NormalizeTuple(world_normal)

\* points of the surface of each primitive, in its own space
SurfacePoints(p) ==
    CASE p.kind = "sphere" ->
            { <<Scale, 0>>, <<-Scale, 0>>, <<0, Scale>>, <<0, -Scale>>,
              <<(6 * Scale) \div 10, (8 * Scale) \div 10>>,
              <<-((8 * Scale) \div 10), (6 * Scale) \div 10>> }
      [] p.kind = "plane" -> { <<x, 0>> : x \in {-Scale, 0, Scale, 2 * Scale} }
      [] p.kind = "cube" ->
            { <<x, y>> : x \in {-Scale, Scale}, y \in {-Scale, 0, Scale \div 2, Scale} }
            \cup { <<x, y>> : x \in {0, Scale \div 2}, y \in {-Scale, Scale} }
      [] p.kind = "cylinder" ->
            { <<x, y>> : x \in {-Scale, Scale},
                         y \in {p.minimum, (p.minimum + p.maximum) \div 2, p.maximum} }
            \cup { <<x, y>> : x \in {0, Scale \div 2}, y \in {p.minimum, p.maximum} }
      [] p.kind = "cone" ->
            { <<side * y, y>> : side \in {-1, 1},
                                  y \in {-Scale, -(Scale \div 2), 0, Scale \div 2, Scale} }
            \cup (IF p.closed THEN { <<x, y>> : x \in {0, Scale \div 2},
                                                y \in {p.minimum, p.maximum} }
                  ELSE {})

NormalPrimitives ==
    { UnitSphere(1), UnitCube(2), CappedCylinder(3, Scale, 2 * Scale), FlatPlane(5),
      MkCone(6, -MAX, MAX, FALSE), MkCone(7, -Scale, Scale, TRUE) }

NormalTransforms ==
    { [scale |-> s, offset |-> o] : s \in {Scale, 2 * Scale}, o \in {<<0, 0>>, <<Scale, -Scale>>} }

\* SpecNormal: one call of normal_at at a drawn point of the surface of a
\* drawn primitive
InitNormal ==
    /\ objects = <<>>
    /\ light = PointLight(0, WHITE)
    /\ \E p \in NormalPrimitives, tr \in NormalTransforms :
          \E q \in SurfacePoints(p) :
             stack = << [fn |-> "normal_at", pc |-> "start", self |-> p, transform |-> tr,
                         local |-> q,
                         point |-> << Mul(q[1], tr.scale) + tr.offset[1],
                                      Mul(q[2], tr.scale) + tr.offset[2] >>] >>
    /\ ret = None
    /\ calls = NoCalls
    /\ xs = <<>>
    /\ ray = NoRay
    /\ target = None
    /\ lpc = "off"
    /\ hitOut = None
    /\ comps = None

DoNormalAt ==
    /\ Running("normal_at", "start")
    /\ stack' = << [Top EXCEPT !.pc = "done"] >>
    /\ ret' = Some(ShapeNormalAt(Top.self, Top.transform, Top.point))
    /\ UNCHANGED <<objects, light, calls, listVars>>

NextNormal == DoNormalAt

SpecNormal == InitNormal /\ [][NextNormal]_vars

\* |n|^2 = 1 within the rounding of the division by the magnitude
UnitLength(n) == n # NaNTuple /\ Abs(Dot(n, n) - Scale) <= 4 * Epsilon

\* C18: normal_at returns a unit-length vector for every primitive (sphere,
\* plane, cube, cylinder, cone) and every point of its surface; the local
\* normal it normalises is never the zero vector.
C18_NormalAtIsUnitLength ==
    Running("normal_at", "done") => UnitLength(Unwrap(ret))

----------------------------------------------------------------------------
(* Canvas (src/canvas.rs).  A String is a sequence of characters; a colour  *)
(* is a record of three fixed-point channels.                               *)

MaxWidth == 12

MaxHeight == 2

\* the 70 of split_long_ppm_line
LineLimit == 70

\* Canvas::new(width, height) with every pixel written to one colour
MkCanvas(width, height, color) ==
    [width |-> width, height |-> height, pixels |-> [k \in 1..(width * height) |-> color]]

\* color_u8; the cast `as u8` saturates at 255
ColorU8(color) ==
    IF color >= 256 * Scale THEN 255
    ELSE IF color <= 0 THEN 0
    ELSE LET scaled == (256 * color) \div Scale
         IN  IF scaled > 255 THEN 255 ELSE scaled

\* format!("{}", n) of an unsigned number: its decimal digits
RECURSIVE Decimal(_)
Decimal(n) ==
    LET digit == SubSeq(<<"0", "1", "2", "3", "4", "5", "6", "7", "8", "9">>,
                        (n % 10) + 1, (n % 10) + 1)
    IN  IF n < 10 THEN digit ELSE Decimal(n \div 10) \o digit

\* [String]::join(sep)
RECURSIVE Join(_, _)
Join(strings, sep) ==
    IF strings = <<>> THEN <<>>
    ELSE IF Len(strings) = 1 THEN strings[1]
    ELSE strings[1] \o sep \o Join(Tail(strings), sep)

\* split_long_ppm_line: the last space at a byte index below 70 becomes a
\* newline (index i of the code is place i + 1 here)
SplitLongPpmLine(line) ==
    IF Len(line) > LineLimit
    THEN LET spaces == { k \in 1..Len(line) : line[k] = " " /\ k - 1 < LineLimit }
         IN  IF spaces = {} THEN Panic("called Option::unwrap() on a None value")
             ELSE LET i == CHOOSE k \in spaces : \A j \in spaces : j <= k
                  IN  Ok([line EXCEPT ![i] = "\n"])
    ELSE Ok(line)

\* the row of Canvas::to_ppm before it is split: "r g b" of every pixel,
\* joined by a space
PpmRow(canvas, y) ==
    Join([x \in 1..canvas.width |->
            LET pixel == canvas.pixels[x + (y - 1) * canvas.width]
            IN  Decimal(ColorU8(pixel.red)) \o <<" ">> \o Decimal(ColorU8(pixel.green))
                \o <<" ">> \o Decimal(ColorU8(pixel.blue))],
         <<" ">>)

\* Canvas::to_ppm
ToPpm(canvas) ==
    LET rows == [y \in 1..canvas.height |-> SplitLongPpmLine(PpmRow(canvas, y))]
    IN  IF \E y \in 1..canvas.height : ~rows[y].ok
        THEN Panic("called Option::unwrap() on a None value")
        ELSE Ok(<<"P", "3", "\n">> \o Decimal(canvas.width) \o <<" ">>
                \o Decimal(canvas.height) \o <<"\n", "2", "5", "5", "\n">>
                \o Join([y \in 1..canvas.height |-> rows[y].value], <<"\n">>)
                \o <<"\n">>)

\* channel values with one, two and three digits
Channels == { 0, Scale \div 100, Scale \div 2, (8 * Scale) \div 10, Scale }

\* SpecCanvas: to_ppm of a canvas of a drawn size and colour
InitCanvas ==
    /\ objects = <<>>
    /\ light = PointLight(0, WHITE)
    /\ \E w \in 1..MaxWidth, h \in 1..MaxHeight, r \in Channels, g \in Channels, b \in Channels :
          stack = << [fn |-> "to_ppm", pc |-> "start",
                      self |-> MkCanvas(w, h, [red |-> r, green |-> g, blue |-> b])] >>
    /\ ret = None
    /\ calls = NoCalls
    /\ xs = <<>>
    /\ ray = NoRay
    /\ target = None
    /\ lpc = "off"
    /\ hitOut = None
    /\ comps = None

DoToPpm ==
    /\ Running("to_ppm", "start")
    /\ stack' = << [Top EXCEPT !.pc = "done"] >>
    /\ ret' = Some(ToPpm(Top.self))
    /\ UNCHANGED <<objects, light, calls, listVars>>

NextCanvas == DoToPpm

SpecCanvas == InitCanvas /\ [][NextCanvas]_vars

\* the pieces of a text between its separators, in order
SplitAt(text, seps) ==
    LET cuts == {0, Len(text) + 1} \cup { k \in 1..Len(text) : text[k] \in seps }
        Cut(n) == CHOOSE c \in cuts : Cardinality({ d \in cuts : d < c }) = n - 1
    IN  [n \in 1..(Cardinality(cuts) - 1) |-> SubSeq(text, Cut(n) + 1, Cut(n + 1) - 1)]

\* the lines of the pixel data: those after the three lines of the header,
\* without the empty piece after the last newline
DataLines(text) ==
    LET lines == SplitAt(text, {"\n"})
    IN  SubSeq(lines, 4, Len(lines) - 1)

\* the numbers of the pixel data, as written
DataNumbers(text) ==
    SelectSeq(SplitAt(Join(DataLines(text), <<"\n">>), {" ", "\n"}),
              LAMBDA piece : piece # <<>>)

\* the numbers to_ppm has to write, pixel by pixel
PixelNumbers(canvas) ==
    SplitAt(Join([y \in 1..canvas.height |-> PpmRow(canvas, y)], <<" ">>), {" "})

\* C19: to_ppm splits long rows so that no line of the pixel data is longer
\* than 70 characters, for every canvas width, and every split falls on a
\* space between two colour values: the numbers of the lines are the colour
\* values of the pixels, none cut in two.
C19_PpmLinesAtMost70 ==
    Running("to_ppm", "done") =>
        /\ Unwrap(ret).ok
        /\ \A k \in 1..Len(DataLines(Unwrap(ret).value)) :
              Len(DataLines(Unwrap(ret).value)[k]) <= LineLimit
        /\ DataNumbers(Unwrap(ret).value) = PixelNumbers(Top.self)

----------------------------------------------------------------------------
(* Claims about Cube::local_intersect (checked under SpecLocal) *)

\* the two times at which the ray's line crosses the planes -1 and +1 of one
\* axis; for a ray parallel to the axis, the sign of each offset times MAX
SlabTimes(origin, direction) ==
    LET Far(n) == IF n = 0 THEN 0 ELSE IF n > 0 THEN MAX ELSE -MAX
    IN  IF Abs(direction) >= Epsilon
        THEN { Div(-Scale - origin, direction), Div(Scale - origin, direction) }
        ELSE { Far(-Scale - origin), Far(Scale - origin) }

\* the slabs of the three axes for a ray of the plane z = 0
Slabs(r) ==
    { SlabTimes(r.origin[1], r.direction[1]), SlabTimes(r.origin[2], r.direction[2]),
      SlabTimes(0, 0) }

MaxOf(S) == CHOOSE m \in S : \A n \in S : n <= m

MinOf(S) == CHOOSE m \in S : \A n \in S : m <= n

\* the largest of the per-axis entry times
Entry(r) == MaxOf({ MinOf(s) : s \in Slabs(r) })

\* the smallest of the per-axis exit times
Exit(r) == MinOf({ MaxOf(s) : s \in Slabs(r) })

\* C21: Cube::local_intersect returns no intersection exactly when the
\* largest per-axis entry time exceeds the smallest per-axis exit time, and
\* otherwise exactly two intersections of the cube, at that entry and that
\* exit, entry <= exit; check_axis returns its pair in ascending order, and
\* for a direction component below epsilon the pair is made of 0 and +-MAX
\* (no quotient by that component is formed).
C21_CubeEntryExit ==
    (Running("local_intersect", "done") /\ Top.self.kind = "cube") =>
        LET list == Unwrap(ret)
            r == Top.ray
        IN  /\ (list = <<>>) <=> (Entry(r) > Exit(r))
            /\ list # <<>> =>
                  /\ list = << Intersection(Entry(r), Top.self),
                               Intersection(Exit(r), Top.self) >>
                  /\ list[1].t <= list[2].t
            /\ \A k \in 1..2 :
                  LET pair == CheckAxis(r.origin[k], r.direction[k])
                  IN  /\ pair[1] <= pair[2]
                      /\ Abs(r.direction[k]) < Epsilon =>
                            pair[1] \in {-MAX, 0, MAX} /\ pair[2] \in {-MAX, 0, MAX}

\* a ray parallel to the x axis that crosses the cube: two intersections,
\* the pair of the y axis coming from the branch without a quotient
C21_Witness ==
    /\ Running("local_intersect", "done")
    /\ Top.self.kind = "cube"
    /\ Top.ray.direction[2] = 0
    /\ Len(Unwrap(ret)) = 2
    /\ Unwrap(ret)[1].t < Unwrap(ret)[2].t

\* a ray through a corner of the cube: entry = exit
C21_WitnessCorner ==
    /\ Running("local_intersect", "done")
    /\ Top.self.kind = "cube"
    /\ Len(Unwrap(ret)) = 2
    /\ Unwrap(ret)[1].t = Unwrap(ret)[2].t

\* a ray that misses the cube
C21_WitnessMiss ==
    /\ Running("local_intersect", "done")
    /\ Top.self.kind = "cube"
    /\ Entry(Top.ray) > Exit(Top.ray)
    /\ Unwrap(ret) = <<>>

----------------------------------------------------------------------------
(* Claims about Cylinder::local_intersect (checked under SpecLocal) *)

\* the times at which the ray's line meets the planes of the two ends within
\* the unit radius
CapTimes(self, r) ==
    { t \in { Div(self.minimum - r.origin[2], r.direction[2]),
              Div(self.maximum - r.origin[2], r.direction[2]) } :
        LET x == PointAt(r, t)[1] IN Mul(x, x) <= Scale }

\* the times at which the ray's line meets the wall (x = -1 or x = 1 in the
\* plane z = 0) at a height strictly between the ends
WallTimes(self, r) ==
    { t \in { Div(-Scale - r.origin[1], r.direction[1]),
              Div(Scale - r.origin[1], r.direction[1]) } :
        self.minimum < PointAt(r, t)[2] /\ PointAt(r, t)[2] < self.maximum }

\* C22: Cylinder::local_intersect on a cylinder truncated to (minimum,
\* maximum) reports, for a ray parallel to the axis (a ~ 0), only end-cap
\* intersections; otherwise it reports a root of the wall only when its
\* height lies strictly between minimum and maximum; end-cap intersections
\* are reported only when the cylinder is closed and direction.y is not ~ 0;
\* an open cylinder never yields more than two intersections and a closed
\* one never more than four.
C22_CylinderBodyAndCaps ==
    (Running("local_intersect", "done") /\ Top.self.kind = "cylinder") =>
        LET list == Unwrap(ret)
            self == Top.self
            r == Top.ray
            parallel == ApproxEq(Mul(r.direction[1], r.direction[1]), 0)
            capped == self.closed /\ ~ApproxEq(r.direction[2], 0)
            caps == IF capped THEN CapTimes(self, r) ELSE {}
            wall == IF parallel THEN {} ELSE WallTimes(self, r)
        IN  /\ { list[k].t : k \in 1..Len(list) } = wall \cup caps
            /\ Len(list) = Cardinality(wall) + Cardinality(caps)
            /\ \A k \in 1..Len(list) : list[k].object = self
            /\ Len(list) <= IF self.closed THEN 4 ELSE 2

\* an open cylinder and a ray that meets its wall exactly at the height of
\* the lower end and again above the upper end: nothing is reported
C22_Witness ==
    /\ Running("local_intersect", "done")
    /\ Top.self.kind = "cylinder"
    /\ ~Top.self.closed
    /\ Top.ray.direction[1] # 0
    /\ \E t \in { Div(-Scale - Top.ray.origin[1], Top.ray.direction[1]),
                  Div(Scale - Top.ray.origin[1], Top.ray.direction[1]) } :
          PointAt(Top.ray, t)[2] = Top.self.minimum
    /\ Unwrap(ret) = <<>>

\* a ray along the axis of a closed cylinder: the two end caps
C22_WitnessCaps ==
    /\ Running("local_intersect", "done")
    /\ Top.self.kind = "cylinder"
    /\ Top.self.closed
    /\ Top.ray.direction[1] = 0
    /\ Len(Unwrap(ret)) = 2

\* a ray across an open cylinder between its ends: the two roots of the wall
C22_WitnessWall ==
    /\ Running("local_intersect", "done")
    /\ Top.self.kind = "cylinder"
    /\ ~Top.self.closed
    /\ Top.self.maximum < MAX
    /\ Len(Unwrap(ret)) = 2

----------------------------------------------------------------------------
(* Claims about Cone::local_intersect (checked under SpecLocal) *)

\* the coefficients of the cone's quadratic in t, for a ray of the plane z = 0
ConeA(r) == Mul(r.direction[1], r.direction[1]) - Mul(r.direction[2], r.direction[2])

ConeB(r) == 2 * Mul(r.origin[1], r.direction[1]) - 2 * Mul(r.origin[2], r.direction[2])

ConeC(r) == Mul(r.origin[1], r.origin[1]) - Mul(r.origin[2], r.origin[2])

\* the times at which the ray's line meets the plane of an end within the
\* radius of the cone at that end; none when the cone is open or the ray
\* runs along the planes
ConeCapTimes(self, r) ==
    IF ~self.closed \/ ApproxEq(r.direction[2], 0) THEN {}
    ELSE { t \in { Div(y - r.origin[2], r.direction[2]) : y \in {self.minimum, self.maximum} } :
             LET x == PointAt(r, t)[1] IN Mul(x, x) <= Mul(PointAt(r, t)[2], PointAt(r, t)[2]) }

\* the intersections of the list that come before the end-cap intersections
SideHits(self, r, list) ==
    SubSeq(list, 1, Len(list) - Cardinality(ConeCapTimes(self, r)))

\* the end-cap intersections of the list
CapHits(self, r, list) ==
    SubSeq(list, Len(list) - Cardinality(ConeCapTimes(self, r)) + 1, Len(list))

\* C23: when |a| <= epsilon and |b| <= epsilon Cone::local_intersect reports
\* only end-cap intersections; when |a| <= epsilon and |b| > epsilon it
\* reports exactly one intersection of the side, at t = -c / (2b), followed
\* by the end-cap intersections; in neither case is a quotient by a
\* coefficient within epsilon of zero formed.
C23_ConeDegenerateBranches ==
    (Running("local_intersect", "done") /\ Top.self.kind = "cone"
        /\ Abs(ConeA(Top.ray)) <= Epsilon) =>
        LET list == Unwrap(ret)
            self == Top.self
            r == Top.ray
            caps == ConeCapTimes(self, r)
        IN  /\ Len(list) >= Cardinality(caps)
            /\ { CapHits(self, r, list)[k].t : k \in 1..Cardinality(caps) } = caps
            /\ \A k \in 1..Len(list) : list[k].object = self
            /\ Abs(ConeB(r)) <= Epsilon => SideHits(self, r, list) = <<>>
            /\ Abs(ConeB(r)) > Epsilon =>
                  SideHits(self, r, list) = << Intersection(Div(-ConeC(r), 2 * ConeB(r)), self) >>

\* a ray parallel to a generator of the closed cone that crosses one end
\* plane within the radius: one intersection of the side and one end cap
C23_Witness ==
    /\ Running("local_intersect", "done")
    /\ Top.self.kind = "cone"
    /\ Abs(ConeA(Top.ray)) <= Epsilon
    /\ Abs(ConeB(Top.ray)) > Epsilon
    /\ Cardinality(ConeCapTimes(Top.self, Top.ray)) = 1
    /\ Len(Unwrap(ret)) = 2

\* a ray along a generator (a = b = 0) of the closed cone: the end caps only
C23_WitnessBoth ==
    /\ Running("local_intersect", "done")
    /\ Top.self.kind = "cone"
    /\ Abs(ConeA(Top.ray)) <= Epsilon
    /\ Abs(ConeB(Top.ray)) <= Epsilon
    /\ Top.self.closed
    /\ Len(Unwrap(ret)) = 2

\* C29: every intersection of the side (not of an end cap) that
\* Cone::local_intersect reports for a cone truncated to (minimum, maximum)
\* lies at a height y = origin.y + t * direction.y with minimum < y < maximum,
\* in every branch, the branch for a within epsilon of zero included.
C29_ConeSideHitsWithinEnds ==
    (Running("local_intersect", "done") /\ Top.self.kind = "cone") =>
        LET side == SideHits(Top.self, Top.ray, Unwrap(ret))
        IN  \A k \in 1..Len(side) :
               /\ Top.self.minimum < PointAt(Top.ray, side[k].t)[2]
               /\ PointAt(Top.ray, side[k].t)[2] < Top.self.maximum

----------------------------------------------------------------------------
(* Claims about the normal of prepare_computations (checked under SpecList) *)

\* C24: prepare_computations sets inside exactly when the normal of the shape
\* at the hit point has a negative dot product with the eye vector
\* (eyev = -ray.direction) and then returns the negated normal, so that
\* normalv . eyev >= 0 in every case; over_point and under_point are the hit
\* point moved by epsilon along the returned normal and against it.
C24_InsideFlipsNormal ==
    lpc = "prepared" =>
        LET c == Unwrap(comps)
            self == Unwrap(target)
            point == Position(ray, self.t)
            shapeNormal == NormalAt(self.object, point)
        IN  /\ c.eyev = -ray.direction
            /\ c.point = point
            /\ c.inside <=> (shapeNormal * c.eyev < 0)
            /\ c.normalv = IF c.inside THEN -shapeNormal ELSE shapeNormal
            /\ c.normalv * c.eyev >= 0
            /\ c.over_point = c.point + c.normalv * Epsilon
            /\ c.under_point = c.point - c.normalv * Epsilon

\* the hit is where the ray leaves a sphere: the normal is flipped
C24_Witness ==
    /\ lpc = "prepared"
    /\ Unwrap(comps).inside
    /\ Unwrap(comps).normalv = -NormalAt(Unwrap(target).object, Unwrap(comps).point)
    /\ Unwrap(comps).over_point < Unwrap(comps).point

\* the hit is where the ray enters a sphere: the normal is kept
C24_WitnessOutside ==
    /\ lpc = "prepared"
    /\ ~Unwrap(comps).inside
    /\ Unwrap(comps).normalv = NormalAt(Unwrap(target).object, Unwrap(comps).point)
    /\ Unwrap(comps).under_point > Unwrap(comps).point

----------------------------------------------------------------------------
(* Claims about the depth counter of a trace (checked under Spec) *)

\* the frames of the color_at calls made from inside the trace, each with
\* the frame of its caller
NestedCalls == { k \in 2..Len(stack) : stack[k].fn = "color_at" }

\* C25: every color_at call made by reflected_color or refracted_color
\* receives exactly remaining - 1 and is made only when remaining >= 1; the
\* u32 counter is therefore never taken below zero, and no call receives a
\* depth larger than the one given to the color_at that started the trace.
C25_DepthDecrementsByOne ==
    /\ \A k \in NestedCalls :
          /\ stack[k - 1].fn \in {"reflected_color", "refracted_color"}
          /\ stack[k - 1].pc = "cast"
          /\ stack[k - 1].remaining >= 1
          /\ stack[k].remaining = stack[k - 1].remaining - 1
    /\ \A k \in 1..Len(stack) :
          /\ stack[k].remaining >= 0
          /\ stack[k].remaining <= stack[1].remaining

\* refracted_color, called with remaining = 1, has called color_at with 0
C25_Witness ==
    \E k \in NestedCalls :
        /\ stack[k - 1].fn = "refracted_color"
        /\ stack[k - 1].remaining = 1
        /\ stack[k].remaining = 0

\* reflected_color, called with remaining = MaxDepth, has called color_at
\* with MaxDepth - 1
C25_WitnessReflected ==
    \E k \in NestedCalls :
        /\ stack[k - 1].fn = "reflected_color"
        /\ stack[k - 1].remaining = MaxDepth
        /\ stack[k].remaining = MaxDepth - 1

----------------------------------------------------------------------------
(* SpecRefracted: one call World::refracted_color(comps, remaining) at any   *)
(* angle of incidence.  The frame holds what the function reads of comps:    *)
(* cos = eyev . normalv, n1, n2, the transparency of the material, and        *)
(* remaining.  The world the refracted ray is cast into is left open: the    *)
(* color_at the function calls may return any of Colours.                    *)

Transparencies == { 0, Epsilon, Scale \div 2, Scale }

Colours == { BLACK, Scale \div 2, WHITE }

InitRefracted ==
    /\ objects = <<>>
    /\ light = PointLight(0, WHITE)
    /\ \E cos \in Cosines, n1 \in Indices, n2 \in Indices, tr \in Transparencies, d \in 0..1 :
          stack = << [fn |-> "refracted_color", pc |-> "start", cos |-> cos, n1 |-> n1,
                      n2 |-> n2, transparency |-> tr, remaining |-> d, color |-> BLACK] >>
    /\ ret = None
    /\ calls = NoCalls
    /\ xs = <<>>
    /\ ray = NoRay
    /\ target = None
    /\ lpc = "off"
    /\ hitOut = None
    /\ comps = None

\* World::refracted_color up to its return of black or its call of color_at
RefractedColorAtAngle ==
    /\ Running("refracted_color", "start")
    /\ LET f == Top
       IN  IF f.transparency <= Epsilon \/ f.remaining = 0
           THEN /\ stack' = << [f EXCEPT !.pc = "done"] >>
                /\ ret' = Some(BLACK)
                /\ calls' = calls
           ELSE IF Sin2TOf(Div(f.n1, f.n2), f.cos) > Scale
           THEN /\ stack' = << [f EXCEPT !.pc = "done"] >>
                /\ ret' = Some(BLACK)
                /\ calls' = calls
           ELSE /\ stack' = << [f EXCEPT !.pc = "cast"] >>
                /\ ret' = None
                /\ calls' = [calls EXCEPT !.color_at = @ + 1]
    /\ UNCHANGED <<objects, light, listVars>>

\* the color_at called for the refracted ray returns
ColorAtOfRefractedRay ==
    /\ Running("refracted_color", "cast")
    /\ ret = None
    /\ \E color \in Colours : ret' = Some(color)
    /\ UNCHANGED <<stack, calls, objects, light, listVars>>

\* World::refracted_color scales the colour color_at returned
RefractedColorAtAngleReturn ==
    /\ Running("refracted_color", "cast")
    /\ IsSome(ret)
    /\ ret' = Some(Mul(Unwrap(ret), Top.transparency))
    /\ stack' = << [Top EXCEPT !.pc = "done", !.color = Unwrap(ret)] >>
    /\ UNCHANGED <<calls, objects, light, listVars>>

NextRefracted ==
    \/ RefractedColorAtAngle
    \/ ColorAtOfRefractedRay
    \/ RefractedColorAtAngleReturn

SpecRefracted == InitRefracted /\ [][NextRefracted]_vars

\* (n1 / n2)^2 * (1 - cos^2) exceeds 1
SineSquaredExceedsOne(f) ==
    Mul(Mul(Div(f.n1, f.n2), Div(f.n1, f.n2)), Scale - Mul(f.cos, f.cos)) > Scale

\* C26: for every transparency > epsilon and remaining > 0, refracted_color
\* returns black without casting a ray (without calling color_at) whenever
\* sin2_t = (n1/n2)^2 * (1 - (eyev . normalv)^2) > 1; when sin2_t <= 1 it
\* casts exactly one ray and returns that ray's colour times
\* material.transparency.
C26_TotalInternalReflectionIsBlack ==
    (stack # <<>> /\ Top.fn = "refracted_color"
        /\ Top.transparency > Epsilon /\ Top.remaining > 0) =>
        /\ calls.color_at <= 1
        /\ SineSquaredExceedsOne(Top) =>
              /\ calls.color_at = 0
              /\ Top.pc \in {"start", "done"}
              /\ Top.pc = "done" => ret = Some(BLACK)
        /\ ~SineSquaredExceedsOne(Top) =>
              /\ Top.pc # "start" => calls.color_at = 1
              /\ Top.pc = "done" => ret = Some(Mul(Top.color, Top.transparency))

\* the repository's test: from inside glass (n1 = 1.5, n2 = 1) at 45 degrees
\* a fully transparent material returns black and no ray was cast
C26_Witness ==
    /\ Running("refracted_color", "done")
    /\ Top.cos = (7071 * Scale) \div 10000
    /\ Top.n1 = Index(3, 2) /\ Top.n2 = Scale
    /\ Top.transparency = Scale /\ Top.remaining > 0
    /\ SineSquaredExceedsOne(Top)
    /\ calls.color_at = 0
    /\ ret = Some(BLACK)

\* a half-transparent material below the critical angle: one ray was cast,
\* it came back white and half of it is returned
C26_WitnessRefracted ==
    /\ Running("refracted_color", "done")
    /\ Top.transparency = Scale \div 2
    /\ ~SineSquaredExceedsOne(Top)
    /\ Top.n1 > Top.n2
    /\ calls.color_at = 1
    /\ Top.color = WHITE
    /\ ret = Some(Scale \div 2)

----------------------------------------------------------------------------
(* Claims relating the refractive indices of neighbouring intersections     *)
(* (checked under SpecList)                                                 *)

SortedByT(list) == \A j, k \in 1..Len(list) : j < k => list[j].t <= list[k].t

\* C27: for a sorted list of pairwise-unequal intersections the refractive
\* indices of prepare_computations are continuous along the ray: n1 of the
\* first intersection is 1.0, and n2 of the k-th intersection is n1 of the
\* (k+1)-th, for every k.
C27_IndicesContinuousAlongRay ==
    (/\ lpc = "prepared"
     /\ SortedByT(xs)
     /\ PairwiseDistinct(xs)
     /\ Unwrap(target) \in Range(xs)) =>
        LET k == PlaceOf(xs, Unwrap(target))
        IN  /\ k = 1 => Unwrap(comps).n1 = Scale
            /\ k < Len(xs) =>
                  Unwrap(comps).n2 = PrepareComputations(xs[k + 1], ray, xs).n1

\* the second of the six intersections of the three glass spheres: its n2,
\* the index of the sphere just entered, is the n1 of the third
C27_Witness ==
    /\ lpc = "prepared"
    /\ xs = GlassXs
    /\ Unwrap(target) = xs[2]
    /\ Unwrap(comps).n2 = Index(2, 1)
    /\ PrepareComputations(xs[3], ray, xs).n1 = Index(2, 1)

\* a sorted list of MaxLen intersections, two of them of shapes built alike,
\* prepared for its first intersection
C27_WitnessFirst ==
    /\ lpc = "prepared"
    /\ SortedByT(xs) /\ PairwiseDistinct(xs)
    /\ Len(xs) = MaxLen
    /\ \E j, k \in 1..Len(xs) : xs[j].object = GlassA /\ xs[k].object = GlassTwin
    /\ Unwrap(target) = xs[1]
    /\ Unwrap(comps).n1 = Scale

----------------------------------------------------------------------------
(* Claims about the refractive indices handed to shade_hit (checked under    *)
(* Spec)                                                                    *)

\* 1.0 and the refractive indices of the shapes of a list of intersections
IndicesAlong(list) ==
    {Scale} \cup { list[j].object.material.refractive_index : j \in 1..Len(list) }

\* the frames of shade_hit, each called by the color_at frame below it
ShadeHitCalls == { k \in 2..Len(stack) : stack[k].fn = "shade_hit" }

\* C28: whenever color_at reaches shade_hit, the hit is an element of the
\* list that was passed to prepare_computations, and n1 and n2 of the
\* computations were both assigned by the containment walk: each is 1.0 or
\* the refractive index of a shape of that list and neither is the initial
\* 0.0; so the n2 by which refracted_color and schlick divide is never an
\* unassigned 0.
C28_IndicesAssignedBeforeShading ==
    /\ \A k \in ShadeHitCalls :
          LET caller == stack[k - 1]
              c == stack[k].comps
          IN  /\ caller.fn = "color_at"
              /\ IsSome(Hit(caller.intersections))
              /\ \E j \in 1..Len(caller.intersections) :
                    /\ caller.intersections[j] = Unwrap(Hit(caller.intersections))
                    /\ caller.intersections[j].t = c.t
                    /\ caller.intersections[j].object = c.object
              /\ c.n1 \in IndicesAlong(caller.intersections)
              /\ c.n2 \in IndicesAlong(caller.intersections)
              /\ c.n1 # 0
              /\ c.n2 # 0
    /\ \A k \in 1..Len(stack) :
          stack[k].fn \in {"reflected_color", "refracted_color"} => stack[k].comps.n2 # 0

\* shade_hit was reached for a hit inside the glass sphere, with another
\* object in the world: n1 is the glass's index and n2 the vacuum's
C28_Witness ==
    \E k \in ShadeHitCalls :
        /\ Len(stack[k - 1].intersections) > 2
        /\ stack[k].comps.n1 = Index(3, 2)
        /\ stack[k].comps.n2 = Scale

\* refracted_color is about to divide n1 by n2 for a transparent material
C28_WitnessRefracted ==
    /\ Running("refracted_color", "start")
    /\ Top.comps.object.material.transparency > Epsilon
    /\ Top.remaining > 0
    /\ Top.comps.n2 = Index(3, 2)

----------------------------------------------------------------------------
(* Claims about the containers of the containment walk (checked under       *)
(* SpecList)                                                                *)

\* the number of intersections the loop of prepare_computations goes through
\* before it stops: up to the first one equal to the receiver, or all of them
StepsOfWalk(list, self) ==
    IF \E k \in 1..Len(list) : IntersectionEq(list[k], self)
    THEN CHOOSE k \in 1..Len(list) :
            /\ IntersectionEq(list[k], self)
            /\ \A j \in 1..(k - 1) : ~IntersectionEq(list[j], self)
    ELSE Len(list)

\* the containers after each step of the loop: the walk on the first n
\* intersections for a receiver that is none of them
ContainersAfter(list, n) ==
    Walk(SubSeq(list, 1, n), Intersection(MaxT + 1, NoShape), 1, <<>>, 0, 0).containers

\* how many of the first n intersections are with the shape
TimesMet(list, n, shape) ==
    Cardinality({ j \in 1..n : ShapeEq(list[j].object, shape) })

\* C30: at every step of the containment walk of prepare_computations the
\* containers hold each shape at most once, and a shape is held exactly when
\* the number of intersections with it so far is odd: after an even number of
\* intersections with a shape that shape is not on the stack.
C30_ContainersHoldEachShapeOnce ==
    lpc = "prepared" =>
        \A n \in 0..StepsOfWalk(xs, Unwrap(target)) :
            LET containers == ContainersAfter(xs, n)
            IN  /\ \A i, j \in 1..Len(containers) :
                      i # j => ~ShapeEq(containers[i], containers[j])
                /\ \A k \in 1..Len(xs) :
                      (\E j \in 1..Len(containers) : ShapeEq(containers[j], xs[k].object))
                          <=> TimesMet(xs, n, xs[k].object) % 2 = 1
                /\ n = StepsOfWalk(xs, Unwrap(target)) =>
                      containers = Walk(xs, Unwrap(target), 1, <<>>, 0, 0).containers

\* a walk that has met one shape twice and another once: only the second is
\* still held
C30_Witness ==
    /\ lpc = "prepared"
    /\ Len(xs) = MaxLen
    /\ StepsOfWalk(xs, Unwrap(target)) = MaxLen
    /\ \E k \in 1..Len(xs) : TimesMet(xs, MaxLen, xs[k].object) = 2
    /\ Len(Walk(xs, Unwrap(target), 1, <<>>, 0, 0).containers) = 1

\* the walk over the six intersections of the three glass spheres: every
\* shape was met twice and none is held at the end
C30_WitnessGlass ==
    /\ lpc = "prepared"
    /\ xs = GlassXs
    /\ Unwrap(target) = xs[6]
    /\ Walk(xs, Unwrap(target), 1, <<>>, 0, 0).containers = <<>>

=============================================================================
